---- MODULE Spec2Model ----
(***************************************************************************)
(* A model of fontra's FontHandler (src/src/fontra/core/fonthandler.py):   *)
(* the cache (localData), the write scheduler (processWrites), the edit    *)
(* pipeline (editFinal / _updateLocalDataAndWriteToBackend), the external  *)
(* change watcher, reloadData, the subscription registry and the           *)
(* broadcast engine.                                                       *)
(*                                                                         *)
(* The handler runs on one asyncio loop: a coroutine runs without          *)
(* interruption up to its next real suspension (a backend call, a proxy    *)
(* call, an Event.wait() on a clear event, asyncio.sleep(0)).  One action  *)
(* of the model is one such uninterrupted run of one task.                 *)
(*                                                                         *)
(* Cached values are Python objects that edits mutate in place, so the     *)
(* model keeps a heap: the cache and the tasks hold references.            *)
(***************************************************************************)
EXTENDS Integers, Sequences, FiniteSets, TLC

----------------------------------------------------------------------------
(* Bounds of the model *)

\* editFinal calls under Spec (each editor slot runs one call)
NumEditors == 1
\* editFinal calls under SpecWrite
NumWriters == 2
\* getGlyph / getData calls by clients (each reader slot runs one call)
NumReaders == 1
\* heap objects alive at the same time
MaxObj == 4
\* revisions an edit can write into a glyph (rev 0 is the backend's initial one)
MaxRev == 1
\* leaves (child changes) of a change a client sends
MaxLeaves == 1
\* leaves of a change the backend watcher emits
MaxExtLeaves == 2
\* writer thunks that fail
MaxFails == 1
\* events the backend watcher emits
MaxExt == 1
\* finishWriting() calls
NumFinish == 1
\* paths of a reload pattern the backend watcher emits
MaxReloadPaths == 1
\* code points a glyphMap entry can be changed to
MaxCp == 1
\* editFinal calls in SpecQueue
NumQueued == 3

----------------------------------------------------------------------------
(* Data model *)

Glyphs == {"A", "B"}
\* sorted() order of the glyph names
GlyphOrder == <<"A", "B">>

GlyphKey(g) == <<"glyphs", g>>
MapKey == <<"glyphMap">>
GlyphKeys == {GlyphKey(g) : g \in Glyphs}
\* DataKeys, each written as its path (_writeKeyToPattern makes the same
\* normalisation of a bare root key to a 1-tuple)
DataKeys == GlyphKeys \cup {MapKey}

Conns == {"c1", "c2"}
NoConn == "none"

NoneValue == [t |-> "none"]
FreeValue == [t |-> "free"]
\* the glyphMap: cp[g] stands for the content of the code point list of g
MapValue == [t |-> "map", cp |-> [g \in Glyphs |-> 0]]
CpsValue(n) == [t |-> "cps", n |-> n]
GlyphValue(r, c) == [t |-> "glyph", rev |-> r, comps |-> c]
\* The values a change can give glyph g: "A" with or without the component "B"
CompSets(g) == IF g = "A" THEN {{}, {"B"}} ELSE {{}}
EditValues(g) == {GlyphValue(r, c) : r \in 1..MaxRev, c \in CompSets(g)}

ObjIds == 1..MaxObj

\* What a cache slot or a local variable holds: nothing, None, or a reference
Absent == [st |-> "absent", ref |-> 0]
IsNone == [st |-> "none", ref |-> 0]
Obj(r) == [st |-> "obj", ref |-> r]

\* Leaves of a change.  "mut": a change below ["glyphs", g] that mutates the
\* glyph in place; "set": glyphs[g] = v at path ["glyphs"]; "del": del glyphs[g]
\* at path ["glyphs"]
Leaf(f, g, v) == [f |-> f, g |-> g, v |-> v]
LeavesOf(g) ==
    {Leaf("mut", g, v) : v \in EditValues(g)}
    \cup {Leaf("set", g, v) : v \in EditValues(g)}
    \cup {Leaf("del", g, NoneValue)}
Leaves == UNION {LeavesOf(g) : g \in Glyphs}
\* "cps": a change below ["glyphMap", g] that mutates the code point list of g
\* in place
MapLeaves == {Leaf("cps", g, CpsValue(n)) : g \in Glyphs, n \in 1..MaxCp}
LeafPath(l) ==
    IF l.f = "mut" THEN <<"glyphs", l.g>>
    ELSE IF l.f = "cps" THEN <<"glyphMap", l.g>>
    ELSE <<"glyphs">>
\* the DataKey a leaf changes
LeafKey(l) == IF l.f = "cps" THEN MapKey ELSE GlyphKey(l.g)
\* The changes of at most n leaves, the leaves in the order of their glyphs
GlyphIndex(g) == CHOOSE i \in DOMAIN GlyphOrder : GlyphOrder[i] = g
ChangesUpTo(n) ==
    UNION {{c \in [1..m -> Leaves] :
               \A i \in 1..(m - 1) : GlyphIndex(c[i].g) < GlyphIndex(c[i + 1].g)} :
           m \in 1..n}
Changes == ChangesUpTo(MaxLeaves)
\* The watcher's changes: those that mutate or delete glyphs
ExtChanges == {c \in ChangesUpTo(MaxExtLeaves) : \A i \in DOMAIN c : c[i].f # "set"}
\* The changes of one code point list
MapChanges == {<<l>> : l \in MapLeaves}
NoChange == <<>>

\* Patterns: prefix-free sets of paths
PatternPaths == {<<"glyphs">>, MapKey} \cup GlyphKeys
NoPattern == {}

Range(s) == {s[i] : i \in DOMAIN s}
Min(S) == CHOOSE x \in S : \A y \in S : x <= y
IsPrefix(p, q) == Len(p) <= Len(q) /\ \A i \in 1..Len(p) : p[i] = q[i]

----------------------------------------------------------------------------
VARIABLES
    backend,        \* what the backend holds: DataKey -> value
    localData,      \* FontHandler.localData: DataKey -> Absent | IsNone | Obj(ref)
    heap,           \* ObjId -> value of the object
    glyphMadeOf,    \* FontHandler.glyphMadeOf
    glyphUsedBy,    \* FontHandler.glyphUsedBy
    queue,          \* FontHandler._dataScheduledForWriting: [isNone, items]
    processWritesEvent,
    writingInProgressEvent,
    processWritesError,
    sched,          \* the processWrites task
    tasks,          \* the editFinal calls (1..NumEditors) and the watcher (0)
    readers,        \* getGlyph / getData calls of clients
    finishers,      \* finishWriting() calls
    closer,         \* the close() call
    readOnly, dummyEditor,
    allConnectionsClosedCallback,   \* whether one is configured
    connections,    \* FontHandler.connections
    scopes,         \* where each connection is in its useConnection context
    clientData,     \* FontHandler.clientData: conn -> [live, committed]
    sent,           \* the externalChange calls the last broadcastChange dispatched
    messages,       \* messageFromServer calls: [conn, title]
    pend,           \* history: per DataKey, the enqueues since its last dequeue
    last,           \* history: the editFinal or watcher event that ended last
    budget          \* what is left of MaxFails, MaxExt

vars == <<backend, localData, heap, glyphMadeOf, glyphUsedBy, queue,
          processWritesEvent, writingInProgressEvent, processWritesError,
          sched, tasks, readers, finishers, closer, readOnly, dummyEditor, allConnectionsClosedCallback,
          connections, scopes, clientData, sent, messages, pend, last, budget>>


----------------------------------------------------------------------------
(* The change algebra (fontra.core.changes), as the handler uses it.        *)
(* A change is the sequence of its leaves, a pattern the set of its paths.  *)

PatternFromPath(path) == {path}

\* Walking `path` through the pattern ends at a sentinel
PatternContains(P, path) == \E p \in P : IsPrefix(p, path)

MatchChangePattern(change, P) ==
    \E i \in DOMAIN change : PatternContains(P, LeafPath(change[i]))

\* The leaves of the change the pattern matches; NoChange stands for None
FilterChangePattern(change, P) ==
    LET Keep(l) == PatternContains(P, LeafPath(l))
    IN  SelectSeq(change, Keep)

CollectChangePaths(change, depth) ==
    {SubSeq(LeafPath(change[i]), 1, depth) :
        i \in {j \in DOMAIN change : Len(LeafPath(change[j])) >= depth}}

\* Of two paths where one is a prefix of the other, intersection keeps the longer
PatternIntersect(P, Q) ==
    {p \in P : \E q \in Q : IsPrefix(q, p)} \cup {q \in Q : \E p \in P : IsPrefix(p, q)}

\* Union keeps the shorter of two paths where one is a prefix of the other
PatternUnion(P, Q) ==
    LET U == P \cup Q
    IN  {p \in U : ~\E q \in U : q # p /\ IsPrefix(q, p)}

\* Difference deletes from P what Q's paths cover
PatternDifference(P, Q) == {p \in P : ~\E q \in Q : IsPrefix(q, p)}

----------------------------------------------------------------------------
(* Helpers of the handler *)

_writeKeyToPattern(writeKey) == PatternFromPath(writeKey)

\* sorted(S) for a set of glyph names
Sorted(S) == LET In(g) == g \in S IN SelectSeq(GlyphOrder, In)

\* localData.get(key) is None: the entry is missing or holds None
Miss(ld, k) == ld[k].st # "obj"

_getLocalDataPattern(ld) == {k \in DataKeys : ld[k].st # "absent"}

_getCombinedSubscribePattern(c) ==
    PatternUnion(clientData[c].live, clientData[c].committed)

\* The names of the components of a glyph value
_iterAllComponentNames(v) == v.comps

\* An updateGlyphDependencies that leaves the previous used-by data in place
UpdateGlyphDependenciesNoZap(made, used, g, v) ==
    LET comps == _iterAllComponentNames(v)
        made1 == IF comps # {}
                 THEN [x \in DOMAIN made \cup {g} |-> IF x = g THEN comps ELSE made[x]]
                 ELSE [x \in DOMAIN made \ {g} |-> made[x]]
        used2 == [c \in DOMAIN used \cup comps |->
                    (IF c \in DOMAIN used THEN used[c] ELSE {})
                    \cup (IF c \in comps THEN {g} ELSE {})]
    IN  [made |-> made1, used |-> used2]

UpdateGlyphDependencies(made, used, g, v) ==
    LET old == IF g \in DOMAIN made THEN made[g] ELSE {}
        used1 == [c \in DOMAIN used |-> IF c \in old THEN used[c] \ {g} ELSE used[c]]
        comps == _iterAllComponentNames(v)
        made1 == IF comps # {}
                 THEN [x \in DOMAIN made \cup {g} |-> IF x = g THEN comps ELSE made[x]]
                 ELSE [x \in DOMAIN made \ {g} |-> made[x]]
        used2 == [c \in DOMAIN used1 \cup comps |->
                    (IF c \in DOMAIN used1 THEN used1[c] ELSE {})
                    \cup (IF c \in comps THEN {g} ELSE {})]
    IN  [made |-> made1, used |-> used2]

\* A reloadData that pops nothing
ReloadDropNothing(ld, P) == ld

\* The cache keys reloadData pops for a pattern whose "glyphs" entry, if any,
\* is a mapping
ReloadDrop(ld, P) ==
    [k \in DataKeys |-> IF k \in P THEN Absent ELSE ld[k]]

\* The connections reloadData calls proxy.reloadData on
ReloadNotified(P) ==
    {c \in connections : PatternIntersect(_getCombinedSubscribePattern(c), P) # {}}

\* A broadcastChange that consults both tiers for a live change too
BroadcastTargetsBothTiers(change, source, isLive) ==
    {c \in connections :
        /\ c # source
        /\ \E P \in {clientData[c].live, clientData[c].committed} :
              MatchChangePattern(change, P)}

\* A broadcastChange that consults one tier: the live one for a live change, the
\* committed one for the others
BroadcastTargetsOneTier(change, source, isLive) ==
    {c \in connections :
        /\ c # source
        /\ MatchChangePattern(change, IF isLive THEN clientData[c].live
                                      ELSE clientData[c].committed)}

\* The connections broadcastChange dispatches externalChange to
BroadcastTargets(change, source, isLive) ==
    LET Pats(c) == IF isLive THEN {clientData[c].live}
                   ELSE {clientData[c].live, clientData[c].committed}
    IN  {c \in connections :
            c # source /\ \E P \in Pats(c) : MatchChangePattern(change, P)}

BroadcastChange(change, source, isLive) ==
    {[conn |-> c, change |-> change, live |-> isLive] :
        c \in BroadcastTargets(change, source, isLive)}

\* A queue that is a list: every enqueue adds an entry
EnqueueAppend(items, key, func, conn) ==
    Append(items, [key |-> key, func |-> func, conn |-> conn])

\* A queue where an enqueue for a pending key moves the entry to the end
EnqueueMoveToEnd(items, key, func, conn) ==
    LET Other(e) == e.key # key
    IN  Append(SelectSeq(items, Other), [key |-> key, func |-> func, conn |-> conn])

\* self._dataScheduledForWriting[writeKey] = (writeFunc, connection): a dict
\* assignment keeps the place of a key that is present
Enqueue(items, key, func, conn) ==
    LET e == [key |-> key, func |-> func, conn |-> conn]
    IN  IF \E i \in DOMAIN items : items[i].key = key
        THEN [i \in DOMAIN items |-> IF items[i].key = key THEN e ELSE items[i]]
        ELSE Append(items, e)

popFirstItem(items) == [entry |-> Head(items), rest |-> Tail(items)]

\* Thunks.  val: the deep copy the partial holds; mapRef: the glyphMap object
\* whose list glyphMap.get(glyphName, []) the partial holds; cps: history, the
\* content of that list when the partial was made
NoFunc == [op |-> "none", g |-> "", val |-> NoneValue, mapRef |-> 0, cps |-> 0]
NoEntry == [key |-> <<>>, func |-> NoFunc, conn |-> NoConn]
PutGlyphFunc(g, v, m, cps) ==
    [op |-> "putGlyph", g |-> g, val |-> v, mapRef |-> m, cps |-> cps]
DeleteGlyphFunc(g) ==
    [op |-> "deleteGlyph", g |-> g, val |-> NoneValue, mapRef |-> 0, cps |-> 0]
PutDataFunc(v) == [op |-> "putData", g |-> "", val |-> v, mapRef |-> 0, cps |-> 0]

\* the code points putGlyph is called with: what the list holds at the call
CodePointsPassed(h, func) ==
    IF func.mapRef \in ObjIds /\ h[func.mapRef].t = "map"
    THEN h[func.mapRef].cp[func.g]
    ELSE func.cps

\* What the backend holds after the thunk has run
BackendAfter(b, func) ==
    IF func.op = "putGlyph"
    THEN [b EXCEPT ![GlyphKey(func.g)] = func.val,
                   ![MapKey].cp[func.g] = CodePointsPassed(heap, func)]
    ELSE IF func.op = "deleteGlyph" THEN [b EXCEPT ![GlyphKey(func.g)] = NoneValue]
    ELSE IF func.op = "putData" THEN [b EXCEPT ![MapKey] = func.val]
    ELSE b

IsReadOnly == readOnly /\ ~dummyEditor

----------------------------------------------------------------------------
(* The heap *)

FreeIds(h) == {i \in ObjIds : h[i] = FreeValue}
Alloc(h) == Min(FreeIds(h))

EntryRefs(S) == {e.ref : e \in {x \in S : x.st = "obj"}}

TaskRefs(t) ==
    EntryRefs({t.got, t.map}) \cup EntryRefs({t.gs[g] : g \in DOMAIN t.gs})

RefsOf(ld, q, sc, tk, rd) ==
    EntryRefs({ld[k] : k \in DataKeys})
    \cup {e.func.mapRef : e \in Range(q.items) \cup {sc.cur}}
    \cup UNION {TaskRefs(tk[i]) : i \in DOMAIN tk}
    \cup EntryRefs({rd[r].got : r \in DOMAIN rd})

\* Objects nothing refers to are collected
Collect(h, refs) == [i \in ObjIds |-> IF i \in refs THEN h[i] ELSE FreeValue]


----------------------------------------------------------------------------
(* Reading through the cache: getGlyph, getData *)

\* _getGlyphFromBackend / _getData: the backend's answer as a fresh object
\* (None for a glyph the backend does not have); a glyph that is not None is
\* handed to updateGlyphDependencies
FetchFromBackend(k, h, made, used) ==
    LET v == backend[k]
        id == Alloc(h)
        deps == IF k \in GlyphKeys
                THEN UpdateGlyphDependencies(made, used, k[2], v)
                ELSE [made |-> made, used |-> used]
    IN  IF v = NoneValue
        THEN [got |-> IsNone, heap |-> h, made |-> made, used |-> used]
        ELSE [got |-> Obj(id), heap |-> [h EXCEPT ![id] = v],
              made |-> deps.made, used |-> deps.used]

CanFetch(k) == backend[k] = NoneValue \/ FreeIds(heap) # {}

ValueOf(h, e) == IF e.st = "obj" THEN h[e.ref] ELSE NoneValue

----------------------------------------------------------------------------
(* The update pipeline: _updateLocalDataAndWriteToBackend and what runs     *)
(* after it in editFinal and in processExternalChanges.                     *)
(* R = [w, t]: w the handler's state the pipeline writes, t the task.       *)

IdleTask ==
    [pc |-> "idle", ext |-> FALSE, orig |-> NoChange, change |-> NoChange,
     conn |-> NoConn, bc |-> FALSE, hasReload |-> FALSE, reload |-> NoPattern,
     mapFirst |-> FALSE, need |-> <<>>, gs |-> <<>>, got |-> Absent,
     map |-> Absent, new |-> {}, del |-> {}, items |-> <<>>]

NoLast == [op |-> "none", change |-> NoChange, applied |-> NoChange, conn |-> NoConn,
           bc |-> FALSE, reload |-> NoPattern]

World ==
    [ld |-> localData, heap |-> heap, q |-> queue, ev |-> processWritesEvent,
     wip |-> writingInProgressEvent, sent |-> sent, msgs |-> messages,
     pend |-> pend, last |-> last]

\* A call that has ended keeps nothing; `last` records what it was
EndTask(R, pc, op) ==
    [w |-> [R.w EXCEPT !.last = [op |-> op, change |-> R.t.orig, applied |-> R.t.change,
                                 conn |-> R.t.conn, bc |-> R.t.bc,
                                 reload |-> R.t.reload]],
     t |-> [IdleTask EXCEPT !.pc = pc]]

\* processExternalChanges, the reloadPattern half: reloadData(reloadPattern).
\* A "glyphs" entry that is the sentinel makes `for glyphName in value` raise;
\* the watcher logs the exception and goes on with the next event.
WatchReload(R) ==
    LET t == R.t
        w == R.w
        P == t.reload
        dropped == [w |-> [w EXCEPT !.ld = ReloadDrop(w.ld, P)], t |-> t]
    IN  IF ~t.hasReload THEN EndTask(R, "idle", "external")
        ELSE IF <<"glyphs">> \in P
        THEN EndTask([w |-> [w EXCEPT !.ld = IF t.mapFirst
                                             THEN ReloadDrop(w.ld, P \cap {MapKey})
                                             ELSE w.ld],
                      t |-> t], "idle", "reloadRaised")
        ELSE IF ReloadNotified(P) # {}
        THEN [w |-> dropped.w, t |-> [IdleTask EXCEPT !.pc = "rlGather", !.ext = TRUE,
                                                      !.orig = t.orig,
                                                      !.change = t.change,
                                                      !.hasReload = TRUE,
                                                      !.reload = P]]
        ELSE EndTask(dropped, "idle", "reload")

\* A watcher that broadcasts the change it applied
WatchAfterRestricted(R) ==
    WatchReload([w |-> [R.w EXCEPT !.sent = BroadcastChange(R.t.change, NoConn, FALSE)],
                 t |-> R.t])

\* processExternalChanges after updateLocalDataWithExternalChange returned:
\* broadcastChange(change, None, False) with the change as the watcher got it
WatchAfter(R) ==
    WatchReload([w |-> [R.w EXCEPT !.sent = BroadcastChange(R.t.orig, NoConn, FALSE)],
                 t |-> R.t])

\* What follows _updateLocalDataAndWriteToBackend
AfterUpdate(R) ==
    IF R.t.ext THEN WatchAfter(R)
    ELSE EndTask([w |-> [R.w EXCEPT !.sent = IF R.t.bc
                                             THEN BroadcastChange(R.t.change, R.t.conn, FALSE)
                                             ELSE @],
                  t |-> R.t], "done", "editFinal")

\* An exception leaves editFinal; the watcher logs it and goes on
Raise(R) ==
    IF R.t.ext THEN EndTask(R, "idle", "externalRaised")
    ELSE EndTask(R, "raised", "editRaised")

\* scheduleDataWrite after its reloadData: connection.proxy.messageFromServer
WriteRefused(R) ==
    IF R.t.conn = NoConn THEN Raise(R)
    ELSE [w |-> [R.w EXCEPT !.msgs = @ \cup {[conn |-> R.t.conn, title |-> "not saved"]}],
          t |-> [R.t EXCEPT !.pc = "wrMsg"]]

\* A scheduleDataWrite that signals only when entries are already pending
ScheduleDataWriteLateSignal(R, writeKey, writeFunc, connection) ==
    LET w == R.w
        P == _writeKeyToPattern(writeKey)
        shouldSignal == w.q.items # <<>>
    IN  IF w.q.isNone
        THEN LET R1 == [w |-> [w EXCEPT !.ld = ReloadDrop(w.ld, P)], t |-> R.t]
             IN  IF ReloadNotified(P) # {}
                 THEN [w |-> R1.w, t |-> [R.t EXCEPT !.pc = "wrGather"]]
                 ELSE WriteRefused(R1)
        ELSE [w |-> [w EXCEPT
                       !.q.items = Enqueue(@, writeKey, writeFunc, connection),
                       !.ev = IF shouldSignal THEN TRUE ELSE @,
                       !.wip = IF shouldSignal THEN FALSE ELSE @,
                       !.pend[writeKey] = [n |-> @.n + 1, last |-> writeFunc]],
              t |-> R.t]

\* scheduleDataWrite(writeKey, writeFunc, connection); pc "run": it returned
ScheduleDataWrite(R, writeKey, writeFunc, connection) ==
    LET w == R.w
        P == _writeKeyToPattern(writeKey)
        shouldSignal == w.q.items = <<>>
    IN  IF w.q.isNone
        THEN LET R1 == [w |-> [w EXCEPT !.ld = ReloadDrop(w.ld, P)], t |-> R.t]
             IN  IF ReloadNotified(P) # {}
                 THEN [w |-> R1.w, t |-> [R.t EXCEPT !.pc = "wrGather"]]
                 ELSE WriteRefused(R1)
        ELSE [w |-> [w EXCEPT
                       !.q.items = Enqueue(@, writeKey, writeFunc, connection),
                       !.ev = IF shouldSignal THEN TRUE ELSE @,
                       !.wip = IF shouldSignal THEN FALSE ELSE @,
                       !.pend[writeKey] = [n |-> @.n + 1, last |-> writeFunc]],
              t |-> R.t]

\* A handler that overlooks readOnly
WriteToBackEndAlways(isExternalChange) == ~isExternalChange

\* _updateLocalData's writeToBackEnd: not isExternalChange and not self.readOnly
WriteToBackEnd(isExternalChange) == ~isExternalChange /\ ~readOnly

\* _updateLocalData, the "glyphs" root key: the loop over sorted(glyphSet.keys())
\* and then over sorted(glyphSet.deletedKeys), from the item it has reached
RECURSIVE CommitRun(_)
CommitRun(R) ==
    LET t == R.t
        w == R.w
        it == Head(t.items)
        k == GlyphKey(it.g)
        ld1 == IF it.kind = "put"
               THEN (IF it.g \in t.new THEN [w.ld EXCEPT ![k] = t.gs[it.g]] ELSE w.ld)
               ELSE [w.ld EXCEPT ![k] = Absent]
        writeToBackEnd == WriteToBackEnd(t.ext)
        func == IF it.kind = "put"
                THEN PutGlyphFunc(it.g, ValueOf(w.heap, t.gs[it.g]), t.map.ref,
                                  ValueOf(w.heap, t.map).cp[it.g])
                ELSE DeleteGlyphFunc(it.g)
        R1 == [w |-> [w EXCEPT !.ld = ld1],
               t |-> [t EXCEPT !.items = Tail(t.items), !.pc = "run"]]
        R2 == IF writeToBackEnd THEN ScheduleDataWrite(R1, k, func, t.conn) ELSE R1
    IN  IF t.items = <<>> THEN AfterUpdate(R)
        ELSE IF R2.t.pc = "run" THEN CommitRun(R2)
        ELSE R2

CommitItems(t) ==
    [i \in 1..Len(Sorted(DOMAIN t.gs)) |-> [kind |-> "put", g |-> Sorted(DOMAIN t.gs)[i]]]
    \o [i \in 1..Len(Sorted(t.del)) |-> [kind |-> "del", g |-> Sorted(t.del)[i]]]

\* _updateLocalData up to the loop: glyphMap = await self.getData("glyphMap")
MapStep(R) ==
    IF Miss(R.w.ld, MapKey)
    THEN [w |-> R.w, t |-> [R.t EXCEPT !.pc = "mapFetch"]]
    ELSE CommitRun([w |-> R.w,
                    t |-> [R.t EXCEPT !.map = R.w.ld[MapKey], !.items = CommitItems(R.t)]])

\* applyChange on the root object, one leaf
ApplyLeaf(a, l) ==
    IF l.f = "cps"
    THEN IF a.map.st # "obj" THEN [a EXCEPT !.raised = TRUE]
         ELSE [a EXCEPT !.heap[a.map.ref].cp[l.g] = l.v.n]
    ELSE IF l.f = "mut"
    THEN IF l.g \notin DOMAIN a.gs \/ a.gs[l.g].st # "obj"
         THEN [a EXCEPT !.raised = TRUE]
         ELSE [a EXCEPT !.heap[a.gs[l.g].ref] = l.v]
    ELSE IF l.f = "set"
    THEN IF FreeIds(a.heap) = {}
         THEN [a EXCEPT !.oom = TRUE, !.raised = TRUE]
         ELSE LET isNewItem == l.g \notin DOMAIN a.gs
                  id == Alloc(a.heap)
              IN  [a EXCEPT !.heap[id] = l.v,
                            !.gs = (l.g :> Obj(id)) @@ @,
                            !.new = IF isNewItem THEN @ \cup {l.g} ELSE @,
                            !.del = IF isNewItem THEN @ \ {l.g} ELSE @]
    ELSE [a EXCEPT !.gs = [x \in DOMAIN @ \ {l.g} |-> @[x]],
                   !.del = @ \cup {l.g},
                   !.new = @ \ {l.g}]

RECURSIVE ApplyLeaves(_, _)
ApplyLeaves(a, ls) ==
    IF ls = <<>> \/ a.raised THEN a
    ELSE ApplyLeaves(ApplyLeaf(a, Head(ls)), Tail(ls))

\* applyChange(rootObject, change), then _updateLocalData
ApplyStep(R) ==
    LET a == ApplyLeaves([gs |-> R.t.gs, heap |-> R.w.heap, new |-> {}, del |-> {},
                          raised |-> FALSE, oom |-> FALSE, map |-> R.t.map],
                         R.t.change)
        R1 == [w |-> [R.w EXCEPT !.heap = a.heap],
               t |-> [R.t EXCEPT !.gs = a.gs, !.new = a.new, !.del = a.del]]
    IN  IF a.oom THEN [w |-> R.w, t |-> [R.t EXCEPT !.pc = "oom"]]
        ELSE IF a.raised THEN Raise(R1)
        ELSE MapStep(R1)

\* _prepareRootObject: getGlyph for each glyph name the change reaches into;
\* a cached glyph comes back without a suspension
RECURSIVE PrepRun(_)
PrepRun(R) ==
    LET t == R.t
        g == Head(t.need)
    IN  IF t.need = <<>> THEN ApplyStep(R)
        ELSE IF Miss(R.w.ld, GlyphKey(g))
        THEN [w |-> R.w, t |-> [t EXCEPT !.pc = "glyphFetch"]]
        ELSE PrepRun([w |-> R.w,
                      t |-> [t EXCEPT !.gs = (g :> R.w.ld[GlyphKey(g)]) @@ @,
                                      !.need = Tail(@)]])

GlyphNamesOf(change) ==
    {p[2] : p \in {q \in CollectChangePaths(change, 2) : q[1] = "glyphs"}}

RootKeysOf(change) == {p[1] : p \in CollectChangePaths(change, 1)}

\* _updateLocalData for the root key "glyphMap", nothing having been assigned:
\* the thunk takes deepcopy(self.localData[rootKey])
RootUpdate(R) ==
    LET func == PutDataFunc(ValueOf(R.w.heap, R.w.ld[MapKey]))
        R1 == [w |-> R.w, t |-> [R.t EXCEPT !.pc = "run"]]
        R2 == IF WriteToBackEnd(R.t.ext)
              THEN ScheduleDataWrite(R1, MapKey, func, R.t.conn)
              ELSE R1
    IN  IF WriteToBackEnd(R.t.ext) /\ R.w.ld[MapKey].st = "absent" THEN Raise(R)
        ELSE IF R2.t.pc = "run" THEN AfterUpdate(R2)
        ELSE R2

\* applyChange on a root object whose only attribute is the glyphMap
RootApply(R) ==
    LET a == ApplyLeaves([gs |-> <<>>, heap |-> R.w.heap, new |-> {}, del |-> {},
                          raised |-> FALSE, oom |-> FALSE, map |-> R.t.map],
                         R.t.change)
    IN  IF a.raised THEN Raise(R)
        ELSE RootUpdate([w |-> [R.w EXCEPT !.heap = a.heap], t |-> R.t])

\* _prepareRootObject for a change below "glyphMap": getData("glyphMap")
RootPrep(R) ==
    IF Miss(R.w.ld, MapKey)
    THEN [w |-> R.w, t |-> [R.t EXCEPT !.pc = "rootFetch"]]
    ELSE RootApply([w |-> R.w, t |-> [R.t EXCEPT !.map = R.w.ld[MapKey]]])

\* _updateLocalDataAndWriteToBackend(change, sourceConnection, isExternalChange)
Pipeline(R) ==
    LET change == IF R.t.ext
                  THEN FilterChangePattern(R.t.orig, _getLocalDataPattern(R.w.ld))
                  ELSE R.t.orig
        t1 == [R.t EXCEPT !.change = change, !.need = Sorted(GlyphNamesOf(change))]
    IN  IF change = NoChange THEN AfterUpdate(R)
        ELSE IF RootKeysOf(change) = {"glyphMap"} THEN RootPrep([w |-> R.w, t |-> t1])
        ELSE PrepRun([w |-> R.w, t |-> t1])

\* The step's effect on the handler's state
Install(R, i) ==
    /\ R.t.pc # "oom"
    /\ tasks' = [tasks EXCEPT ![i] = R.t]
    /\ localData' = R.w.ld
    /\ queue' = R.w.q
    /\ processWritesEvent' = R.w.ev
    /\ writingInProgressEvent' = R.w.wip
    /\ sent' = R.w.sent
    /\ messages' = R.w.msgs
    /\ pend' = R.w.pend
    /\ last' = R.w.last
    /\ heap' = Collect(R.w.heap, RefsOf(localData', queue', sched, tasks', readers))


HeapNext(h) ==
    heap' = Collect(h, RefsOf(localData', queue', sched', tasks', readers'))

----------------------------------------------------------------------------
(* Initial state: the handler after __post_init__ and startTasks *)

\* close() not called yet
IdleCloser == [pc |-> "idle", backendClosed |-> FALSE, watcherCancelled |-> FALSE]

\* `start` is history: the call that had ended last when the read began
IdleReader == [pc |-> "idle", k |-> <<>>, got |-> Absent, start |-> "none"]
IdleSched == [pc |-> "wait", cur |-> NoEntry, merged |-> 0]

InitBackend ==
    (GlyphKey("A") :> GlyphValue(0, {"B"}))
    @@ (GlyphKey("B") :> GlyphValue(0, {}))
    @@ (MapKey :> MapValue)

InitClientData ==
    ("c1" :> [live |-> {}, committed |-> {GlyphKey("A")}])
    @@ ("c2" :> [live |-> {}, committed |-> {}])

InitCommon ==
    /\ backend = InitBackend
    /\ localData = [k \in DataKeys |-> Absent]
    /\ heap = [i \in ObjIds |-> FreeValue]
    /\ glyphMadeOf = <<>>
    /\ glyphUsedBy = <<>>
    /\ queue = [isNone |-> FALSE, items |-> <<>>]
    /\ processWritesEvent = FALSE
    /\ writingInProgressEvent = TRUE
    /\ processWritesError = FALSE
    /\ sched = IdleSched
    /\ readers = [r \in 1..NumReaders |-> IdleReader]
    /\ finishers = [f \in 1..NumFinish |-> "idle"]
    /\ closer = IdleCloser
    /\ connections = Conns
    /\ scopes = [c \in Conns |-> "in"]
    /\ allConnectionsClosedCallback = FALSE
    /\ clientData = InitClientData
    /\ sent = {}
    /\ messages = {}
    /\ pend = [k \in DataKeys |-> [n |-> 0, last |-> NoFunc]]
    /\ last = NoLast
    /\ budget = [fails |-> MaxFails, ext |-> MaxExt]

\* FontHandler(backend, readOnly, dummyEditor): __post_init__ forces readOnly
\* when the backend is not writable
Init ==
    /\ InitCommon
    /\ tasks = [i \in 0..NumEditors |-> IdleTask]
    /\ \E writable \in BOOLEAN, ro \in BOOLEAN :
          readOnly = (ro \/ ~writable)
    /\ dummyEditor \in BOOLEAN

\* A writable backend, readOnly and dummyEditor left at their defaults
InitWrite ==
    /\ InitCommon
    /\ tasks = [i \in 0..NumWriters |-> IdleTask]
    /\ readOnly = FALSE
    /\ dummyEditor = FALSE

----------------------------------------------------------------------------
(* Clients: getGlyph / getGlyphMap *)

\* getGlyph(glyphName) / getData(key) up to the backend call
GetStart(r, k) ==
    /\ readers[r].pc = "idle"
    /\ readers' = [readers EXCEPT ![r] =
                      IF Miss(localData, k)
                      THEN [pc |-> "fetch", k |-> k, got |-> Absent, start |-> last.op]
                      ELSE [IdleReader EXCEPT !.pc = "done"]]
    /\ UNCHANGED <<backend, localData, heap, glyphMadeOf, glyphUsedBy, queue,
                   processWritesEvent, writingInProgressEvent, processWritesError,
                   sched, tasks, finishers, closer, readOnly, dummyEditor, allConnectionsClosedCallback, connections, scopes,
                   clientData, sent, messages, pend, last, budget>>

\* the backend answers (_getGlyphFromBackend runs to its end)
GetFetch(r) ==
    /\ readers[r].pc = "fetch"
    /\ CanFetch(readers[r].k)
    /\ LET f == FetchFromBackend(readers[r].k, heap, glyphMadeOf, glyphUsedBy)
       IN  /\ readers' = [readers EXCEPT ![r].pc = "got", ![r].got = f.got]
           /\ glyphMadeOf' = f.made
           /\ glyphUsedBy' = f.used
           /\ UNCHANGED <<backend, localData, queue, processWritesEvent,
                          writingInProgressEvent, processWritesError, sched, tasks,
                          finishers, closer, readOnly, dummyEditor, allConnectionsClosedCallback, connections, scopes, clientData,
                          sent, messages, pend, last, budget>>
           /\ HeapNext(f.heap)

\* getGlyph / getData resumes: self.localData[key] = value
GetStore(r) ==
    /\ readers[r].pc = "got"
    /\ localData' = [localData EXCEPT ![readers[r].k] = readers[r].got]
    /\ readers' = [readers EXCEPT ![r] = [IdleReader EXCEPT !.pc = "done"]]
    /\ UNCHANGED <<backend, glyphMadeOf, glyphUsedBy, queue, processWritesEvent,
                   writingInProgressEvent, processWritesError, sched, tasks,
                   finishers, closer, readOnly, dummyEditor, allConnectionsClosedCallback, connections, scopes, clientData,
                   sent, messages, pend, last, budget>>
    /\ HeapNext(heap)

----------------------------------------------------------------------------
(* Clients: editFinal; the watcher: processExternalChanges *)

TaskFrame ==
    UNCHANGED <<backend, glyphMadeOf, glyphUsedBy, processWritesError, sched,
                readers, finishers, closer, readOnly, dummyEditor, allConnectionsClosedCallback, connections, scopes,
                clientData, budget>>

\* editFinal(finalChange, ..., broadcast, connection=conn) up to its first suspension
EditFinal(i, change, conn, bc) ==
    /\ i \in DOMAIN tasks \ {0}
    /\ tasks[i].pc = "idle"
    /\ \A j \in 1..(i - 1) : tasks[j].pc # "idle"
    /\ Install(Pipeline([w |-> World,
                         t |-> [IdleTask EXCEPT !.orig = change, !.conn = conn,
                                                !.bc = bc]]), i)
    /\ TaskFrame

\* the watcher takes (change, reloadPattern) from watchExternalChanges()
WatchEvent(change, hasReload, P, mapFirst) ==
    /\ tasks[0].pc = "idle"
    /\ ~closer.watcherCancelled
    /\ budget.ext > 0
    /\ change # NoChange \/ hasReload
    /\ LET t == [IdleTask EXCEPT !.ext = TRUE, !.orig = change, !.hasReload = hasReload,
                                 !.reload = P, !.mapFirst = mapFirst]
           R == [w |-> World, t |-> t]
       IN  Install(IF change # NoChange THEN Pipeline(R) ELSE WatchReload(R), 0)
    /\ budget' = [budget EXCEPT !.ext = @ - 1]
    /\ UNCHANGED <<backend, glyphMadeOf, glyphUsedBy, processWritesError, sched,
                   readers, finishers, closer, readOnly, dummyEditor, allConnectionsClosedCallback, connections, scopes, clientData>>

\* the backend answers the getGlyph of _prepareRootObject
TaskGlyphFetch(i) ==
    /\ tasks[i].pc = "glyphFetch"
    /\ CanFetch(GlyphKey(Head(tasks[i].need)))
    /\ LET f == FetchFromBackend(GlyphKey(Head(tasks[i].need)), heap,
                                 glyphMadeOf, glyphUsedBy)
       IN  /\ tasks' = [tasks EXCEPT ![i].pc = "glyphGot", ![i].got = f.got]
           /\ glyphMadeOf' = f.made
           /\ glyphUsedBy' = f.used
           /\ UNCHANGED <<backend, localData, queue, processWritesEvent,
                          writingInProgressEvent, processWritesError, sched, readers,
                          finishers, closer, readOnly, dummyEditor, allConnectionsClosedCallback, connections, scopes, clientData,
                          sent, messages, pend, last, budget>>
           /\ HeapNext(f.heap)

\* getGlyph resumes in _prepareRootObject: the glyph goes into the cache and
\* the pipeline runs on
TaskGlyphStore(i) ==
    /\ tasks[i].pc = "glyphGot"
    /\ LET t == tasks[i]
           g == Head(t.need)
       IN  Install(PrepRun([w |-> [World EXCEPT !.ld[GlyphKey(g)] = t.got],
                            t |-> [t EXCEPT !.gs = (g :> t.got) @@ @,
                                            !.need = Tail(@), !.got = Absent]]), i)
    /\ TaskFrame

\* the backend answers the getData("glyphMap") of _updateLocalData
TaskMapFetch(i) ==
    /\ tasks[i].pc = "mapFetch"
    /\ CanFetch(MapKey)
    /\ LET f == FetchFromBackend(MapKey, heap, glyphMadeOf, glyphUsedBy)
       IN  /\ tasks' = [tasks EXCEPT ![i].pc = "mapGot", ![i].got = f.got]
           /\ UNCHANGED <<backend, localData, glyphMadeOf, glyphUsedBy, queue,
                          processWritesEvent, writingInProgressEvent,
                          processWritesError, sched, readers, finishers, closer, readOnly,
                          dummyEditor, allConnectionsClosedCallback, connections, scopes, clientData, sent, messages,
                          pend, last, budget>>
           /\ HeapNext(f.heap)

\* the backend answers the getData("glyphMap") of _prepareRootObject
TaskRootFetch(i) ==
    /\ tasks[i].pc = "rootFetch"
    /\ CanFetch(MapKey)
    /\ LET f == FetchFromBackend(MapKey, heap, glyphMadeOf, glyphUsedBy)
       IN  /\ tasks' = [tasks EXCEPT ![i].pc = "rootGot", ![i].got = f.got]
           /\ UNCHANGED <<backend, localData, glyphMadeOf, glyphUsedBy, queue,
                          processWritesEvent, writingInProgressEvent,
                          processWritesError, sched, readers, finishers, closer, readOnly,
                          dummyEditor, allConnectionsClosedCallback, connections, scopes, clientData, sent, messages,
                          pend, last, budget>>
           /\ HeapNext(f.heap)

\* getData("glyphMap") resumes in _prepareRootObject; applyChange and
\* _updateLocalData follow
TaskRootStore(i) ==
    /\ tasks[i].pc = "rootGot"
    /\ LET t == tasks[i]
       IN  Install(RootApply([w |-> [World EXCEPT !.ld[MapKey] = t.got],
                              t |-> [t EXCEPT !.map = t.got, !.got = Absent]]), i)
    /\ TaskFrame

\* getData("glyphMap") resumes in _updateLocalData, which runs its loop
TaskMapStore(i) ==
    /\ tasks[i].pc = "mapGot"
    /\ LET t == tasks[i]
       IN  Install(CommitRun([w |-> [World EXCEPT !.ld[MapKey] = t.got],
                              t |-> [t EXCEPT !.map = t.got, !.got = Absent,
                                              !.items = CommitItems(t)]]), i)
    /\ TaskFrame

\* scheduleDataWrite without a scheduler: the clients answered reloadData
TaskWrGatherDone(i) ==
    /\ tasks[i].pc = "wrGather"
    /\ Install(WriteRefused([w |-> World, t |-> tasks[i]]), i)
    /\ TaskFrame

\* scheduleDataWrite without a scheduler: messageFromServer returned
TaskWrMsgDone(i) ==
    /\ tasks[i].pc = "wrMsg"
    /\ Install(CommitRun([w |-> World, t |-> tasks[i]]), i)
    /\ TaskFrame

\* the watcher's reloadData: the clients answered proxy.reloadData
WatchReloadDone ==
    /\ tasks[0].pc = "rlGather"
    /\ Install(EndTask([w |-> World, t |-> tasks[0]], "idle", "reload"), 0)
    /\ TaskFrame


----------------------------------------------------------------------------
(* The write scheduler: processWrites / _processWritesOneCycle *)

\* Event.set() on the writing-finished event resumes the finishWriting() of
\* close() when it waits on it
WakeCloser(cl) == IF cl.pc = "waiting" THEN [cl EXCEPT !.pc = "woken"] ELSE cl

\* Event.set() on the writing-finished event resumes every finishWriting()
\* that waits on it
WakeFinishers(fs) == [f \in DOMAIN fs |-> IF fs[f] = "waiting" THEN "woken" ELSE fs[f]]

\* The top of `while self._dataScheduledForWriting`: pop the first entry and
\* call its thunk, or leave the cycle through the finally clause of
\* processWrites and wait for the event again
CycleTop ==
    IF queue.items # <<>>
    THEN LET p == popFirstItem(queue.items)
         IN  /\ sched' = [pc |-> "writing", cur |-> p.entry,
                          merged |-> pend[p.entry.key].n]
             /\ queue' = [queue EXCEPT !.items = p.rest]
             /\ pend' = [pend EXCEPT ![p.entry.key] = [n |-> 0, last |-> NoFunc]]
             /\ UNCHANGED <<processWritesEvent, writingInProgressEvent, finishers, closer>>
    ELSE /\ sched' = IdleSched
         /\ processWritesEvent' = FALSE
         /\ writingInProgressEvent' = TRUE
         /\ finishers' = WakeFinishers(finishers)
         /\ closer' = WakeCloser(closer)
         /\ UNCHANGED <<queue, pend, last>>

\* processWrites resumes from self._processWritesEvent.wait()
SchedWake ==
    /\ sched.pc = "wait"
    /\ processWritesEvent
    /\ CycleTop
    /\ UNCHANGED <<backend, localData, glyphMadeOf, glyphUsedBy, processWritesError,
                   tasks, readers, readOnly, dummyEditor, allConnectionsClosedCallback, connections, scopes, clientData,
                   sent, messages, last, budget>>
    /\ HeapNext(heap)

\* the thunk returns: the backend has the value; then asyncio.sleep(0)
SchedWriteOk ==
    /\ sched.pc = "writing"
    /\ backend' = BackendAfter(backend, sched.cur.func)
    /\ sched' = [pc |-> "yield", cur |-> NoEntry, merged |-> 0]
    /\ UNCHANGED <<localData, glyphMadeOf, glyphUsedBy, queue, processWritesEvent,
                   writingInProgressEvent, processWritesError, tasks, readers,
                   finishers, closer, readOnly, dummyEditor, allConnectionsClosedCallback, connections, scopes, clientData, sent,
                   messages, pend, last, budget>>
    /\ HeapNext(heap)

\* A processWrites that ends without storing the error
AfterFailedReloadNoError ==
    IF sched.cur.conn # NoConn
    THEN /\ messages' = messages \cup {[conn |-> sched.cur.conn, title |-> "reverted"]}
         /\ sched' = [sched EXCEPT !.pc = "failMsg"]
         /\ UNCHANGED <<processWritesError, processWritesEvent,
                        writingInProgressEvent, finishers, closer>>
    ELSE /\ processWritesEvent' = FALSE
         /\ writingInProgressEvent' = TRUE
         /\ finishers' = WakeFinishers(finishers)
         /\ closer' = WakeCloser(closer)
         /\ sched' = [pc |-> "done", cur |-> NoEntry, merged |-> 0]
         /\ UNCHANGED <<messages, processWritesError>>

\* After the reloadData of a failed write: tell the connection, or, without one,
\* raise: processWrites stores the error, clears and sets its events and ends
AfterFailedReload ==
    IF sched.cur.conn # NoConn
    THEN /\ messages' = messages \cup {[conn |-> sched.cur.conn, title |-> "reverted"]}
         /\ sched' = [sched EXCEPT !.pc = "failMsg"]
         /\ UNCHANGED <<processWritesError, processWritesEvent,
                        writingInProgressEvent, finishers, closer>>
    ELSE /\ processWritesError' = TRUE
         /\ processWritesEvent' = FALSE
         /\ writingInProgressEvent' = TRUE
         /\ finishers' = WakeFinishers(finishers)
         /\ closer' = WakeCloser(closer)
         /\ sched' = [pc |-> "done", cur |-> NoEntry, merged |-> 0]
         /\ UNCHANGED messages

\* the thunk raises: reloadData(reloadPattern) drops the key from the cache
SchedWriteFail ==
    /\ sched.pc = "writing"
    /\ budget.fails > 0
    /\ budget' = [budget EXCEPT !.fails = @ - 1]
    /\ localData' = ReloadDrop(localData, _writeKeyToPattern(sched.cur.key))
    /\ IF ReloadNotified(_writeKeyToPattern(sched.cur.key)) # {}
       THEN /\ sched' = [sched EXCEPT !.pc = "failReload"]
            /\ UNCHANGED <<messages, processWritesError, processWritesEvent,
                           writingInProgressEvent, finishers, closer>>
       ELSE AfterFailedReload
    /\ UNCHANGED <<backend, glyphMadeOf, glyphUsedBy, queue, tasks, readers,
                   readOnly, dummyEditor, allConnectionsClosedCallback, connections, scopes, clientData, sent, pend, last>>
    /\ HeapNext(heap)

\* the clients answered the reloadData of a failed write
SchedReloadDone ==
    /\ sched.pc = "failReload"
    /\ AfterFailedReload
    /\ UNCHANGED <<backend, localData, glyphMadeOf, glyphUsedBy, queue, tasks,
                   readers, readOnly, dummyEditor, allConnectionsClosedCallback, connections, scopes, clientData, sent,
                   pend, last, budget>>
    /\ HeapNext(heap)

\* messageFromServer returned; then asyncio.sleep(0)
SchedMsgDone ==
    /\ sched.pc = "failMsg"
    /\ sched' = [pc |-> "yield", cur |-> NoEntry, merged |-> 0]
    /\ UNCHANGED <<backend, localData, glyphMadeOf, glyphUsedBy, queue,
                   processWritesEvent, writingInProgressEvent, processWritesError,
                   tasks, readers, finishers, closer, readOnly, dummyEditor, allConnectionsClosedCallback, connections, scopes,
                   clientData, sent, messages, pend, last, budget>>
    /\ HeapNext(heap)

\* asyncio.sleep(0) returns
SchedYield ==
    /\ sched.pc = "yield"
    /\ CycleTop
    /\ UNCHANGED <<backend, localData, glyphMadeOf, glyphUsedBy, processWritesError,
                   tasks, readers, readOnly, dummyEditor, allConnectionsClosedCallback, connections, scopes, clientData,
                   sent, messages, last, budget>>
    /\ HeapNext(heap)

\* the done callback of the ended task
_processWritesTaskDone ==
    /\ sched.pc = "done"
    /\ ~queue.isNone
    /\ queue' = [isNone |-> TRUE, items |-> <<>>]
    /\ UNCHANGED <<backend, localData, glyphMadeOf, glyphUsedBy, processWritesEvent,
                   writingInProgressEvent, processWritesError, sched, tasks, readers,
                   finishers, closer, readOnly, dummyEditor, allConnectionsClosedCallback, connections, scopes, clientData, sent,
                   messages, pend, last, budget>>
    /\ HeapNext(heap)

----------------------------------------------------------------------------
(* finishWriting *)

\* finishWriting() up to its return or to its wait on the writing-finished event
FinishCall(f) ==
    /\ finishers[f] = "idle"
    /\ finishers' = [finishers EXCEPT ![f] =
                        IF processWritesError THEN "raised"
                        ELSE IF writingInProgressEvent THEN "returned"
                        ELSE "waiting"]
    /\ UNCHANGED <<backend, localData, heap, glyphMadeOf, glyphUsedBy, queue,
                   processWritesEvent, writingInProgressEvent, processWritesError,
                   sched, tasks, readers, closer, readOnly, dummyEditor, allConnectionsClosedCallback, connections, scopes,
                   clientData, sent, messages, pend, last, budget>>

\* finishWriting() resumes from the wait
FinishResume(f) ==
    /\ finishers[f] = "woken"
    /\ finishers' = [finishers EXCEPT ![f] =
                        IF processWritesError THEN "raised" ELSE "returned"]
    /\ UNCHANGED <<backend, localData, heap, glyphMadeOf, glyphUsedBy, queue,
                   processWritesEvent, writingInProgressEvent, processWritesError,
                   sched, tasks, readers, closer, readOnly, dummyEditor, allConnectionsClosedCallback, connections, scopes,
                   clientData, sent, messages, pend, last, budget>>

----------------------------------------------------------------------------
(* close *)

\* Task.cancel() on the processWrites task: CancelledError is thrown into it
\* when it runs next, at the wait for the event (outside the try statement) or
\* at a suspension inside _processWritesOneCycle; an ended task is left alone
CancelRequest(s) ==
    IF s.pc = "done" THEN s
    ELSE IF s.pc = "wait" THEN [s EXCEPT !.pc = "cancelWait"]
    ELSE [s EXCEPT !.pc = "cancelRun"]

\* finishWriting() as close() awaits it, from a given point on, and then
\* self._processWritesTask.cancel()
CloseFinish(waited) ==
    IF processWritesError
    THEN /\ closer' = [closer EXCEPT !.pc = "raised", !.backendClosed = TRUE,
                                     !.watcherCancelled = TRUE]
         /\ UNCHANGED sched
    ELSE IF waited \/ writingInProgressEvent
    THEN /\ closer' = [closer EXCEPT !.pc = "returned", !.backendClosed = TRUE,
                                     !.watcherCancelled = TRUE]
         /\ sched' = CancelRequest(sched)
    ELSE /\ closer' = [closer EXCEPT !.pc = "waiting", !.backendClosed = TRUE,
                                     !.watcherCancelled = TRUE]
         /\ UNCHANGED sched

CloseFrame ==
    UNCHANGED <<backend, localData, glyphMadeOf, glyphUsedBy, queue,
                processWritesEvent, writingInProgressEvent, processWritesError,
                readers, finishers, readOnly, dummyEditor,
                allConnectionsClosedCallback, connections, scopes, clientData,
                sent, messages, pend, last, budget>>

\* self._watcherTask.cancel(): CancelledError ends processExternalChanges at the
\* suspension it is at, whatever it was doing (its except clause catches
\* Exception only); it takes no further event and keeps no object
WatcherCancelled(tk) == [tk EXCEPT ![0] = IdleTask]

\* close(): backend.close(), the watcher is cancelled, then finishWriting() up
\* to its wait, and, when it does not have to wait, the scheduler is cancelled
CloseCall ==
    /\ closer.pc = "idle"
    /\ CloseFinish(FALSE)
    /\ tasks' = WatcherCancelled(tasks)
    /\ CloseFrame
    /\ HeapNext(heap)

\* close() resumes from the wait of finishWriting() and cancels the scheduler
CloseResume ==
    /\ closer.pc = "woken"
    /\ CloseFinish(TRUE)
    /\ UNCHANGED <<tasks, heap>>
    /\ CloseFrame

\* The cancelled processWrites task runs: CancelledError ends it, through the
\* finally clause when it was inside the try statement; a thunk that was in
\* flight has written or has not
SchedCancelled ==
    /\ sched.pc \in {"cancelWait", "cancelRun"}
    /\ sched' = [pc |-> "done", cur |-> NoEntry, merged |-> 0]
    /\ IF sched.pc = "cancelRun"
       THEN /\ processWritesEvent' = FALSE
            /\ writingInProgressEvent' = TRUE
            /\ finishers' = WakeFinishers(finishers)
            /\ closer' = WakeCloser(closer)
            /\ backend' \in {backend, BackendAfter(backend, sched.cur.func)}
       ELSE UNCHANGED <<processWritesEvent, writingInProgressEvent, finishers, closer,
                        backend>>
    /\ UNCHANGED <<localData, glyphMadeOf, glyphUsedBy, queue, processWritesError,
                   tasks, readers, readOnly, dummyEditor, allConnectionsClosedCallback,
                   connections, scopes, clientData, sent, messages, pend, last, budget>>
    /\ HeapNext(heap)

----------------------------------------------------------------------------
(* Connections and subscriptions *)

ClientFrame ==
    UNCHANGED <<backend, localData, heap, glyphMadeOf, glyphUsedBy, queue,
                processWritesEvent, writingInProgressEvent, processWritesError,
                sched, tasks, readers, finishers, closer, readOnly, dummyEditor, allConnectionsClosedCallback,
                messages, pend, budget>>

\* How a useConnection context is left: its body returns or raises
ExitKinds == {"return", "raise"}

\* The callback called at every exit of a context
ClosedCallbackCalledAlways(conns) == allConnectionsClosedCallback

\* if not self.connections and self.allConnectionsClosedCallback is not None
ClosedCallbackCalled(conns) == conns = {} /\ allConnectionsClosedCallback

\* the context of c left with how its body ended
ScopeLeft(how) == IF how = "raise" THEN "raised" ELSE "out"

\* useConnection(connection), entering the context: a connection is in one
\* context at a time, that of its client session
UseConnectionEnter(c) ==
    /\ scopes[c] \in {"out", "raised"}
    /\ connections' = connections \cup {c}
    /\ scopes' = [scopes EXCEPT ![c] = "in"]
    /\ UNCHANGED <<clientData, sent, last>>
    /\ ClientFrame

\* useConnection(connection), the body ends: the finally clause removes the
\* connection and, with no connection left, awaits the callback
UseConnectionExit(c, how) ==
    /\ scopes[c] = "in"
    /\ c \in connections
    /\ connections' = connections \ {c}
    /\ scopes' = [scopes EXCEPT ![c] =
                     IF ClosedCallbackCalled(connections')
                     THEN IF how = "raise" THEN "closingRaise" ELSE "closing"
                     ELSE ScopeLeft(how)]
    /\ UNCHANGED <<clientData, sent, last>>
    /\ ClientFrame

\* await self.allConnectionsClosedCallback() returns and the context is left
ClosedCallbackReturns(c) ==
    /\ scopes[c] \in {"closing", "closingRaise"}
    /\ scopes' = [scopes EXCEPT ![c] =
                     ScopeLeft(IF scopes[c] = "closingRaise" THEN "raise" ELSE "return")]
    /\ UNCHANGED <<connections, clientData, sent, last>>
    /\ ClientFrame

_ensurePattern(path) == PatternFromPath(path)

\* self._getClientData(connection, key, {})
StoredPattern(c, wantLiveChanges) ==
    IF wantLiveChanges THEN clientData[c].live ELSE clientData[c].committed

\* A subscribe that puts the pattern in the place of the stored one
AdjustedPatternReplacing(subscribe, matchPattern, P) ==
    IF subscribe THEN P ELSE PatternDifference(matchPattern, P)

\* func(matchPattern, pathOrPattern): patternUnion or patternDifference
AdjustedPattern(subscribe, matchPattern, P) ==
    IF subscribe THEN PatternUnion(matchPattern, P)
    ELSE PatternDifference(matchPattern, P)

\* _adjustMatchPattern(func, pattern, wantLiveChanges, connection), func being
\* patternUnion (subscribe) or patternDifference (unsubscribe)
_adjustMatchPattern(subscribe, P, wantLiveChanges, c) ==
    LET matchPattern == StoredPattern(c, wantLiveChanges)
        adjusted == AdjustedPattern(subscribe, matchPattern, P)
    IN  IF wantLiveChanges THEN [clientData EXCEPT ![c].live = adjusted]
        ELSE [clientData EXCEPT ![c].committed = adjusted]

subscribeChanges(path, wantLiveChanges, c) ==
    /\ c \in connections
    /\ clientData' = _adjustMatchPattern(TRUE, _ensurePattern(path), wantLiveChanges, c)
    /\ UNCHANGED <<connections, scopes, sent, last>>
    /\ ClientFrame

unsubscribeChanges(path, wantLiveChanges, c) ==
    /\ c \in connections
    /\ clientData' = _adjustMatchPattern(FALSE, _ensurePattern(path), wantLiveChanges, c)
    /\ UNCHANGED <<connections, scopes, sent, last>>
    /\ ClientFrame

\* An editIncremental that also signals the scheduler
editIncrementalSignalling(liveChange, c) ==
    /\ c \in connections
    /\ sent' = BroadcastChange(liveChange, c, TRUE)
    /\ last' = [op |-> "editIncremental", change |-> liveChange, applied |-> NoChange,
                conn |-> c, bc |-> TRUE, reload |-> NoPattern]
    /\ processWritesEvent' = TRUE
    /\ UNCHANGED <<backend, localData, heap, glyphMadeOf, glyphUsedBy, queue,
                   writingInProgressEvent, processWritesError, sched, tasks, readers,
                   finishers, closer, readOnly, dummyEditor,
                   allConnectionsClosedCallback, connections, scopes, clientData,
                   messages, pend, budget>>

\* editIncremental(liveChange, connection=c)
editIncremental(liveChange, c) ==
    /\ c \in connections
    /\ sent' = BroadcastChange(liveChange, c, TRUE)
    /\ last' = [op |-> "editIncremental", change |-> liveChange, applied |-> NoChange,
                conn |-> c, bc |-> TRUE, reload |-> NoPattern]
    /\ UNCHANGED <<connections, scopes, clientData>>
    /\ ClientFrame

----------------------------------------------------------------------------
ReloadPatterns ==
    {P \in SUBSET PatternPaths :
        /\ P # {}
        /\ Cardinality(P) <= MaxReloadPaths
        /\ \A p \in P, q \in P : IsPrefix(p, q) => p = q}

Editors == DOMAIN tasks \ {0}
Tasks == DOMAIN tasks

\* Clients that read and edit, the watcher, and a scheduler whose writes succeed
Next ==
    \/ \E r \in 1..NumReaders, k \in DataKeys : GetStart(r, k)
    \/ \E r \in 1..NumReaders : GetFetch(r)
    \/ \E r \in 1..NumReaders : GetStore(r)
    \/ \E i \in Editors, c \in Changes : EditFinal(i, c, "c2", TRUE)
    \/ \E c \in ExtChanges : WatchEvent(c, FALSE, NoPattern, FALSE)
    \/ \E P \in ReloadPatterns, mf \in BOOLEAN :
          /\ mf => (<<"glyphs">> \in P /\ MapKey \in P)
          /\ WatchEvent(NoChange, TRUE, P, mf)
    \/ \E i \in Tasks : TaskGlyphFetch(i)
    \/ \E i \in Tasks : TaskGlyphStore(i)
    \/ \E i \in Tasks : TaskMapFetch(i)
    \/ \E i \in Tasks : TaskMapStore(i)
    \/ WatchReloadDone
    \/ SchedWake
    \/ SchedWriteOk
    \/ SchedYield

Spec == Init /\ [][Next]_vars

\* Clients that edit and wait for the writes, and a scheduler whose writes can fail
NextWrite ==
    \/ \E i \in Editors, c \in Changes, conn \in {"c1", NoConn} :
          EditFinal(i, c, conn, FALSE)
    \/ \E i \in Editors : TaskGlyphFetch(i)
    \/ \E i \in Editors : TaskGlyphStore(i)
    \/ \E i \in Editors : TaskMapFetch(i)
    \/ \E i \in Editors : TaskMapStore(i)
    \/ \E i \in Editors : TaskWrGatherDone(i)
    \/ \E i \in Editors : TaskWrMsgDone(i)
    \/ SchedWake
    \/ SchedWriteOk
    \/ SchedWriteFail
    \/ SchedReloadDone
    \/ SchedMsgDone
    \/ SchedYield
    \/ _processWritesTaskDone
    \/ \E f \in 1..NumFinish : FinishCall(f)
    \/ \E f \in 1..NumFinish : FinishResume(f)

SpecWrite == InitWrite /\ [][NextWrite]_vars

\* A handler nobody is connected to yet
InitDisconnected ==
    /\ backend = InitBackend
    /\ localData = [k \in DataKeys |-> Absent]
    /\ heap = [i \in ObjIds |-> FreeValue]
    /\ glyphMadeOf = <<>>
    /\ glyphUsedBy = <<>>
    /\ queue = [isNone |-> FALSE, items |-> <<>>]
    /\ processWritesEvent = FALSE
    /\ writingInProgressEvent = TRUE
    /\ processWritesError = FALSE
    /\ sched = IdleSched
    /\ readers = [r \in 1..NumReaders |-> IdleReader]
    /\ finishers = [f \in 1..NumFinish |-> "idle"]
    /\ closer = IdleCloser
    /\ connections = {}
    /\ scopes = [c \in Conns |-> "out"]
    /\ clientData = [c \in Conns |-> [live |-> {}, committed |-> {}]]
    /\ sent = {}
    /\ messages = {}
    /\ pend = [k \in DataKeys |-> [n |-> 0, last |-> NoFunc]]
    /\ last = NoLast
    /\ budget = [fails |-> MaxFails, ext |-> MaxExt]
    /\ tasks = [i \in 0..NumEditors |-> IdleTask]
    /\ readOnly = FALSE
    /\ dummyEditor = FALSE

\* No allConnectionsClosedCallback
InitBroadcast ==
    /\ InitDisconnected
    /\ allConnectionsClosedCallback = FALSE

\* what clients subscribe to: one glyph for live changes, all glyphs for the rest
SubscribePaths(wantLiveChanges) ==
    IF wantLiveChanges THEN {GlyphKey("A")} ELSE {<<"glyphs">>}
LiveChanges == {c \in Changes : c[1].f = "mut" /\ c[1].v = GlyphValue(MaxRev, {})}

\* Clients that connect, subscribe, unsubscribe and edit, and the watcher
NextBroadcast ==
    \/ \E c \in Conns : UseConnectionEnter(c)
    \/ \E c \in Conns : UseConnectionExit(c, "return")
    \/ \E c \in Conns, wl \in BOOLEAN : \E p \in SubscribePaths(wl) :
          subscribeChanges(p, wl, c)
    \/ \E c \in Conns, wl \in BOOLEAN : \E p \in SubscribePaths(wl) :
          unsubscribeChanges(p, wl, c)
    \/ \E c \in Conns, x \in LiveChanges : editIncremental(x, c)
    \/ \E i \in Editors, c \in connections, x \in LiveChanges : EditFinal(i, x, c, TRUE)
    \/ \E x \in LiveChanges : WatchEvent(x, FALSE, NoPattern, FALSE)
    \/ \E i \in Tasks : TaskGlyphFetch(i)
    \/ \E i \in Tasks : TaskGlyphStore(i)
    \/ \E i \in Tasks : TaskMapFetch(i)
    \/ \E i \in Tasks : TaskMapStore(i)
    \/ SchedWake
    \/ SchedWriteOk
    \/ SchedYield

SpecBroadcast == InitBroadcast /\ [][NextBroadcast]_vars


----------------------------------------------------------------------------
(* Claims *)

PendingFor(q, k) == {i \in DOMAIN q.items : q.items[i].key = k}

\* the scheduler takes an entry off the queue in this step
Dequeues == sched'.pc = "writing" /\ sched.pc # "writing"

\* C1: the write queue never holds two entries for one DataKey; the entry the
\* scheduler dequeues for a key carries the thunk of the last editFinal that
\* was accepted for that key, no entry for the key is left behind, and the
\* backend then holds the glyph value of that thunk: edits accepted before the
\* dequeue are written by one putGlyph with the last edit's value.
C1_CoalescedWrite ==
    [][/\ \A k \in DataKeys : Cardinality(PendingFor(queue', k)) <= 1
       /\ Dequeues =>
            /\ sched'.cur.func = pend[sched'.cur.key].last
            /\ PendingFor(queue', sched'.cur.key) = {}
       /\ (sched.pc = "writing" /\ sched'.pc = "yield"
             /\ sched.cur.func.op = "putGlyph") =>
            backend'[sched.cur.key] = sched.cur.func.val]_vars

\* two editFinal calls were accepted for the glyph whose putGlyph is in flight
C1_Witness ==
    /\ sched.pc = "writing"
    /\ sched.merged >= 2
    /\ sched.cur.func.op = "putGlyph"


\* the editFinal call of editor i returns in this step
EditReturns(i) == tasks[i].pc # "done" /\ tasks'[i].pc = "done"

\* the last leaf of the change for DataKey k
LastLeafFor(change, k) ==
    change[CHOOSE i \in DOMAIN change :
              /\ LeafKey(change[i]) = k
              /\ \A j \in DOMAIN change : LeafKey(change[j]) = k => j <= i]
KeysOf(change) == {LeafKey(change[i]) : i \in DOMAIN change}

\* the cache entry of k holds the value the change gives k
CacheReflects(ld, h, change, k) ==
    LET l == LastLeafFor(change, k)
    IN  IF l.f = "del" THEN ld[k].st = "absent"
        ELSE ld[k].st = "obj" /\ h[ld[k].ref] = l.v

\* C2 (as claimed): when an editFinal call returns, the cache entry of every
\* DataKey its change touched holds the post-change value and, with writes
\* enabled, the write queue holds an entry for that DataKey.
C2_EditReflected ==
    [][\A i \in Editors :
         EditReturns(i) =>
           \A k \in KeysOf(last'.change) :
              /\ CacheReflects(localData', heap', last'.change, k)
              /\ ~readOnly => PendingFor(queue', k) # {}]_vars

\* applyChange of the editFinal of editor i runs in this step, and the change
\* it applies
EditApplies(i) ==
    /\ tasks[i].pc \in {"idle", "glyphGot"}
    /\ tasks'[i].pc \in {"mapFetch", "done"}
EditChange(i) == IF tasks'[i].pc = "done" THEN last'.change ELSE tasks'[i].change
\* the glyph object of g that applyChange changes is the cache entry of g:
\* _prepareRootObject takes it from the cache or stores it there in this step,
\* or took it before a suspension that has left the entry in place
EditOnCached(i, g) ==
    \/ tasks[i].pc = "idle"
    \/ g \notin DOMAIN tasks[i].gs
    \/ localData[GlyphKey(g)] = tasks[i].gs[g]

\* the externalChange calls of an editFinal: the change, to every connection
\* other than the source whose live or committed pattern matches it
EditDelivered(change, source) ==
    {[conn |-> c, change |-> change, live |-> FALSE] :
        c \in {x \in connections \ {source} :
                 \/ MatchChangePattern(change, clientData[x].live)
                 \/ MatchChangePattern(change, clientData[x].committed)}}

\* C3: with readOnly set, the write queue stays empty, the scheduler is never
\* woken and the backend keeps its content (no put or delete reaches it); with
\* dummyEditor, isReadOnly() answers false. editFinal still updates the cache:
\* an edit in place leaves the new value in the cached glyph in the step where
\* it applies the change (the glyph object it changes being the cache entry:
\* no reload has dropped the entry while the call was suspended before), and
\* an edit that assigns or deletes a glyph leaves the cache entry as the change
\* says when it returns. editFinal still broadcasts: when it returns,
\* externalChange has been dispatched with the change to every other
\* connection whose pattern matches.
C3_ReadOnlyNeverWrites ==
    [][readOnly =>
         /\ queue'.items = <<>> /\ ~queue'.isNone
         /\ ~processWritesEvent' /\ sched'.pc = "wait"
         /\ backend' = InitBackend
         /\ dummyEditor => ~IsReadOnly
         /\ \A i \in Editors :
              /\ EditApplies(i) =>
                    \A j \in DOMAIN EditChange(i) :
                       (EditChange(i)[j].f = "mut" /\ EditOnCached(i, EditChange(i)[j].g)) =>
                          CacheReflects(localData', heap', EditChange(i),
                                        LeafKey(EditChange(i)[j]))
              /\ EditReturns(i) =>
                    /\ \A k \in KeysOf(last'.change) :
                          LastLeafFor(last'.change, k).f \in {"set", "del"} =>
                             CacheReflects(localData', heap', last'.change, k)
                    /\ last'.bc => sent' = EditDelivered(last'.change, last'.conn)]_vars

\* a read-only handler with a dummy editor, after an external event, has run
\* an editFinal that edited a glyph in place: the cache holds the new value of
\* the glyph and the change has been delivered to a subscriber
C3_Witness ==
    /\ readOnly /\ dummyEditor /\ ~IsReadOnly
    /\ budget.ext < MaxExt
    /\ last.op = "editFinal"
    /\ \E j \in DOMAIN last.change :
          /\ last.change[j].f = "mut"
          /\ CacheReflects(localData, heap, last.change, LeafKey(last.change[j]))
    /\ sent = EditDelivered(last.change, last.conn)
    /\ sent # {}
    /\ queue.items = <<>> /\ backend = InitBackend

\* the watcher's reloadData(P) returns in this step
ReloadReturns ==
    /\ last'.op = "reload"
    /\ \/ tasks[0].pc = "rlGather" /\ tasks'[0].pc = "idle"
       \/ budget'.ext < budget.ext /\ tasks'[0].pc = "idle"

\* C4 (as claimed): when reloadData(P) returns, the cache holds no entry for
\* any DataKey whose path lies in P.
C4_ReloadLeavesNoEntry ==
    [][ReloadReturns =>
         \A k \in DataKeys :
            PatternContains(last'.reload, k) => localData'[k].st = "absent"]_vars

\* C10 (as claimed): glyphMadeOf[g] is the set of component names of the cached
\* value of g, for every glyph g that has a cached value (no entry when the
\* set is empty).
MadeOf(g) == IF g \in DOMAIN glyphMadeOf THEN glyphMadeOf[g] ELSE {}
C10_MadeOfMatchesCache ==
    \A g \in Glyphs :
       localData[GlyphKey(g)].st = "obj" =>
          /\ MadeOf(g) = heap[localData[GlyphKey(g)].ref].comps
          /\ g \in DOMAIN glyphMadeOf => glyphMadeOf[g] # {}


\* the watcher takes an event / runs / ends the handling of one in this step
WatchStarts == budget'.ext < budget.ext
WatchSteps == WatchStarts \/ tasks'[0] # tasks[0]
WatchChangeEnds ==
    /\ WatchSteps /\ tasks'[0].pc = "idle" /\ last'.op = "external"
    /\ last'.change # NoChange
\* the event the step belongs to: what the backend emitted and what is applied
WatchEmitted == IF tasks'[0].pc = "idle" THEN last'.change ELSE tasks'[0].orig
WatchApplied == IF tasks'[0].pc = "idle" THEN last'.applied ELSE tasks'[0].change
WatchIsChangeEvent ==
    IF tasks'[0].pc = "idle" THEN last'.op \in {"external", "externalRaised"}
    ELSE ~tasks'[0].hasReload

\* the leaves of a change that lie under a DataKey the cache has an entry for
RestrictToCached(change, ld) ==
    LET Cached(l) == \E k \in DataKeys : ld[k].st # "absent" /\ IsPrefix(k, LeafPath(l))
    IN  SelectSeq(change, Cached)

\* the externalChange calls that deliver x to every connection with a matching
\* live or committed pattern
DeliveredToAll(x) ==
    {[conn |-> c, change |-> x, live |-> FALSE] :
        c \in {y \in connections :
                 \/ MatchChangePattern(x, clientData[y].live)
                 \/ MatchChangePattern(x, clientData[y].committed)}}

\* what both readings of C6 share: the change applied to the cache is the
\* restriction of the emitted change to the DataKeys cached when the watcher
\* takes the event; no step of the watcher enqueues a write; a step that
\* handles a change leaves the cache entry and the value of every glyph outside
\* the applied change as they were
WatchAppliesRestriction ==
    /\ WatchStarts => WatchApplied = RestrictToCached(WatchEmitted, localData)
    /\ WatchSteps => queue' = queue /\ pend' = pend /\ processWritesEvent' = processWritesEvent
    /\ (WatchSteps /\ WatchIsChangeEvent) =>
          \A k \in GlyphKeys \ KeysOf(WatchApplied) :
             /\ localData'[k] = localData[k]
             /\ localData[k].st = "obj" => heap'[localData[k].ref] = heap[localData[k].ref]

\* the update of the change raises in this step: the watcher logs the exception
WatchChangeRaises ==
    /\ WatchSteps /\ tasks'[0].pc = "idle" /\ last'.op = "externalRaised"

\* no step of the watcher that handles a change gives a cache entry to a
\* DataKey that has none, or changes the entry or the value of a DataKey
\* outside the applied change
WatchLoadsNothing ==
    (WatchSteps /\ WatchIsChangeEvent) =>
       \A k \in DataKeys :
          /\ localData[k].st = "absent" => localData'[k].st = "absent"
          /\ k \notin KeysOf(WatchApplied) =>
                /\ localData'[k] = localData[k]
                /\ localData[k].st = "obj" => heap'[localData[k].ref] = heap[localData[k].ref]

\* the glyph map in a step of the watcher that handles a change of glyphs: its
\* cache entry changes only where getData("glyphMap") resumes in
\* _updateLocalData, the map having had no entry when the update asked for it,
\* and becomes what the backend answered; an entry that stays keeps its value
WatchLoadsGlyphMapOnly ==
    (WatchSteps /\ WatchIsChangeEvent /\ MapKey \notin KeysOf(WatchApplied)) =>
       /\ tasks'[0].pc = "mapFetch" => Miss(localData', MapKey) /\ WatchApplied # NoChange
       /\ IF tasks[0].pc = "mapGot"
          THEN localData'[MapKey] = tasks[0].got /\ tasks[0].got # Absent
          ELSE localData'[MapKey] = localData[MapKey]
       /\ (localData[MapKey].st = "obj" /\ localData'[MapKey] = localData[MapKey]) =>
             heap'[localData[MapKey].ref] = heap[localData[MapKey].ref]

C7_ReturnsOnlyWhenDrained ==
    [][\A f \in DOMAIN finishers :
         (finishers[f] # "returned" /\ finishers'[f] = "returned") =>
            /\ queue'.items = <<>>
            /\ sched'.pc # "writing"
            /\ ~processWritesError']_vars

\* the thunk that is in flight raises in this step
ThunkFails == sched.pc = "writing" /\ budget'.fails < budget.fails

\* C8: when the thunk of an entry with a known connection raises, the cache
\* entry of its DataKey is dropped (the next read misses and goes to the
\* backend), the connection is sent the "reverted" message once the clients have
\* answered reloadData, no error is stored, and the scheduler goes on to the
\* entries that are left: after the message it takes the head of the queue, or
\* waits when the queue is empty.
C8_FailedWriteReverted ==
    [][/\ (ThunkFails /\ sched.cur.conn # NoConn) =>
            /\ Miss(localData', sched.cur.key)
            /\ localData'[sched.cur.key].st = "absent"
            /\ sched'.pc \in {"failReload", "failMsg"}
            /\ sched'.cur = sched.cur
            /\ ~processWritesError'
            /\ queue' = queue
       /\ (sched.pc \in {"writing", "failReload"} /\ sched'.pc = "failMsg") =>
            /\ [conn |-> sched.cur.conn, title |-> "reverted"] \in messages'
            /\ sched.cur.conn # NoConn
       /\ (sched.pc = "failReload" /\ sched.cur.conn # NoConn) =>
            sched'.pc \in {"failReload", "failMsg"}
       /\ sched.pc = "failMsg" =>
            /\ sched'.pc \in {"failMsg", "yield"}
            /\ ~processWritesError'
       /\ (sched.pc = "yield" /\ sched'.pc # "yield") =>
            IF queue.items # <<>>
            THEN sched'.pc = "writing" /\ sched'.cur = Head(queue.items)
            ELSE sched'.pc = "wait"]_vars

\* a write of a known connection failed and was reported, and the scheduler is
\* writing the entry that was behind it
C8_Witness ==
    /\ sched.pc = "writing"
    /\ budget.fails < MaxFails
    /\ \E m \in messages : m.title = "reverted"
    /\ ~processWritesError

\* C9: when the thunk of an entry without a connection raises, the cache entry
\* of its DataKey is dropped, and once the clients have answered reloadData the
\* scheduler stores the error and ends; from then on the error stays, the
\* scheduler stays ended, and every finishWriting() call that starts or resumes
\* raises instead of returning.
C9_FailedWriteTerminates ==
    [][/\ (ThunkFails /\ sched.cur.conn = NoConn) =>
            /\ localData'[sched.cur.key].st = "absent"
            /\ sched'.pc \in {"failReload", "done"}
            /\ sched'.pc = "done" => processWritesError'
       /\ (sched.pc = "failReload" /\ sched.cur.conn = NoConn) =>
            (sched'.pc = "failReload" \/ (sched'.pc = "done" /\ processWritesError'))
       /\ processWritesError =>
            /\ processWritesError' /\ sched'.pc = "done" /\ sched.pc = "done"
            /\ \A f \in DOMAIN finishers :
                  finishers'[f] # finishers[f] => finishers'[f] = "raised"
       /\ sched.pc = "done" => processWritesError]_vars

\* the scheduler ended on the failed write of an entry without a connection,
\* and a finishWriting() call made after that raised
C9_Witness ==
    /\ processWritesError
    /\ sched.pc = "done"
    /\ queue.isNone
    /\ \E f \in DOMAIN finishers : finishers[f] = "raised"
    /\ \A m \in messages : m.title # "reverted"


\* broadcastChange(x, source, live) is called in this step
BroadcastCalled ==
    /\ last' # last \/ sent' # sent
    /\ \/ last'.op = "editIncremental"
       \/ last'.op = "editFinal" /\ last'.bc
       \/ last'.op = "external"
BroadcastLive == last'.op = "editIncremental"

\* C5: broadcastChange(x, source, live) dispatches externalChange(x, live) to
\* connection c iff c is in the connection set, c is not the source, and x
\* matches c's live pattern (live) or c's live or committed pattern (not
\* live); it dispatches nothing to a connection both of whose patterns are
\* empty.
C5_BroadcastTargets ==
    [][BroadcastCalled =>
         /\ \A c \in Conns :
               ([conn |-> c, change |-> last'.change, live |-> BroadcastLive] \in sent')
               <=> /\ c \in connections
                   /\ c # last'.conn
                   /\ IF BroadcastLive
                      THEN MatchChangePattern(last'.change, clientData[c].live)
                      ELSE \/ MatchChangePattern(last'.change, clientData[c].live)
                           \/ MatchChangePattern(last'.change, clientData[c].committed)
         /\ \A d \in sent' :
               /\ d.change = last'.change /\ d.live = BroadcastLive
               /\ clientData[d.conn].live # {} \/ clientData[d.conn].committed # {}]_vars

\* a live change was broadcast and went to nobody, although a connection other
\* than the source has a committed pattern that matches it
C5_Witness ==
    /\ last.op = "editIncremental"
    /\ sent = {}
    /\ \E c \in connections \ {last.conn} :
          /\ MatchChangePattern(last.change, clientData[c].committed)
          /\ ~MatchChangePattern(last.change, clientData[c].live)


----------------------------------------------------------------------------
(* The dependency tracker on its own *)

DepGlyphs == {"A", "B", "C"}

\* updateGlyphDependencies(glyphName, glyph), glyph having the components comps
updateGlyphDependencies(g, comps) ==
    /\ LET d == UpdateGlyphDependencies(glyphMadeOf, glyphUsedBy, g, GlyphValue(0, comps))
       IN  /\ glyphMadeOf' = d.made
           /\ glyphUsedBy' = d.used
    /\ UNCHANGED <<backend, localData, heap, queue, processWritesEvent,
                   writingInProgressEvent, processWritesError, sched, tasks, readers,
                   finishers, closer, readOnly, dummyEditor, allConnectionsClosedCallback, connections, scopes, clientData, sent,
                   messages, pend, last, budget>>

NextDeps == \E g \in DepGlyphs, comps \in SUBSET DepGlyphs : updateGlyphDependencies(g, comps)

SpecDeps == InitWrite /\ [][NextDeps]_vars

\* C11: g is in glyphUsedBy[c] if and only if c is in glyphMadeOf[g], for all
\* glyph names g and c, after any sequence of updateGlyphDependencies calls.
C11_UsedByMirrorsMadeOf ==
    \A g \in DepGlyphs, c \in DepGlyphs :
       (c \in DOMAIN glyphUsedBy /\ g \in glyphUsedBy[c])
       <=> (g \in DOMAIN glyphMadeOf /\ c \in glyphMadeOf[g])

\* a glyph that used a component was updated to use another one: the first
\* component is known to the tracker and used by nobody
C11_Witness ==
    /\ \E c \in DOMAIN glyphUsedBy : glyphUsedBy[c] = {}
    /\ \E g \in DOMAIN glyphMadeOf : g \in glyphMadeOf[g]
    /\ \E g \in DOMAIN glyphMadeOf : Cardinality(glyphMadeOf[g]) >= 2


----------------------------------------------------------------------------
(* The write queue under several edits *)

InitQueue ==
    /\ InitCommon
    /\ tasks = [i \in 0..NumQueued |-> IdleTask]
    /\ readOnly = FALSE
    /\ dummyEditor = FALSE

\* edits that assign a glyph
QueueChanges == {c \in Changes : c[1].f = "set" /\ c[1].v.comps = {}}

NextQueue ==
    \/ \E i \in Editors, c \in QueueChanges, conn \in Conns : EditFinal(i, c, conn, FALSE)
    \/ \E i \in Editors : TaskMapFetch(i)
    \/ \E i \in Editors : TaskMapStore(i)
    \/ SchedWake
    \/ SchedWriteOk
    \/ SchedYield

SpecQueue == InitQueue /\ [][NextQueue]_vars

QueueKeys(q) == [i \in DOMAIN q.items |-> q.items[i].key]

\* C12: the scheduler takes the entry at the head of the queue, and the queue
\* keeps its keys in the order of their first enqueue: a step either leaves
\* the order of the keys as it is (an enqueue for a pending key replaces thunk
\* and connection at the entry's position), or adds keys that were not pending
\* at the end, or takes the head off for the scheduler to write.
C12_FirstEnqueuedFirstWritten ==
    [][/\ \A i \in DOMAIN queue'.items, j \in DOMAIN queue'.items :
             queue'.items[i].key = queue'.items[j].key => i = j
       /\ IF Dequeues
          THEN /\ queue.items # <<>>
               /\ sched'.cur = Head(queue.items)
               /\ queue'.items = Tail(queue.items)
          ELSE /\ Len(queue'.items) >= Len(queue.items)
               /\ SubSeq(QueueKeys(queue'), 1, Len(queue.items)) = QueueKeys(queue)
       /\ \A i \in Editors :
            (EditReturns(i) /\ last'.op = "editFinal") =>
               \A k \in KeysOf(last'.change) :
                  \E n \in DOMAIN queue'.items :
                     /\ queue'.items[n].key = k
                     /\ queue'.items[n].conn = last'.conn
                     /\ queue'.items[n].func = pend'[k].last
                     /\ \A m \in DOMAIN queue.items :
                           queue.items[m].key = k => m = n]_vars

\* the key at the head of a queue of two was enqueued again after the key
\* behind it
C12_Witness ==
    /\ Len(queue.items) = 2
    /\ pend[queue.items[1].key].n >= 2
    /\ pend[queue.items[2].key].n = 1
    /\ \A i \in Editors : tasks[i].pc = "done"
    /\ last.change[1].g = queue.items[1].key[2]


----------------------------------------------------------------------------
(* An edit, a reload and a read *)

\* Clients that edit without broadcast and read, the watcher's reloads, and a
\* scheduler whose writes succeed
NextReload ==
    \/ \E r \in 1..NumReaders, k \in DataKeys : GetStart(r, k)
    \/ \E r \in 1..NumReaders : GetFetch(r)
    \/ \E r \in 1..NumReaders : GetStore(r)
    \/ \E i \in Editors, c \in Changes : EditFinal(i, c, "c2", FALSE)
    \/ \E P \in ReloadPatterns : WatchEvent(NoChange, TRUE, P, FALSE)
    \/ \E i \in Tasks : TaskGlyphFetch(i)
    \/ \E i \in Tasks : TaskGlyphStore(i)
    \/ \E i \in Tasks : TaskMapFetch(i)
    \/ \E i \in Tasks : TaskMapStore(i)
    \/ WatchReloadDone
    \/ SchedWake
    \/ SchedWriteOk
    \/ SchedYield

InitReload ==
    /\ InitCommon
    /\ tasks = [i \in 0..NumEditors |-> IdleTask]
    /\ readOnly = FALSE
    /\ dummyEditor = FALSE

SpecReload == InitReload /\ [][NextReload]_vars

\* the backend's value of k once every write accepted for k has been made
PostWrite(k) ==
    LET after(func) == IF func.op = "putGlyph" THEN func.val ELSE NoneValue
    IN  IF pend[k].n > 0 THEN after(pend[k].last)
        ELSE IF sched.pc = "writing" /\ sched.cur.key = k THEN after(sched.cur.func)
        ELSE backend[k]

\* the backend answers, in this step, a read of k that began after every
\* editFinal had returned and a reloadData covering k had then run from start
\* to end
ReadAfterEditAndReload(r, k) ==
    /\ readers[r].pc = "fetch" /\ readers'[r].pc = "got"
    /\ readers[r].k = k
    /\ readers[r].start = "reload" /\ last.op = "reload"
    /\ PatternContains(last.reload, k)
    /\ ReloadNotified(last.reload) = {}
    /\ \A i \in Editors : tasks[i].pc = "done"

\* C13 (as claimed): a read of a DataKey that follows an editFinal without
\* broadcast and a reloadData of the key puts into the cache the backend state
\* that includes the edit's write, whether the scheduler has made the write
\* or not.
C13_ReloadYieldsPostWrite ==
    [][\A r \in DOMAIN readers, k \in DataKeys :
         ReadAfterEditAndReload(r, k) =>
            ValueOf(heap', readers'[r].got) = PostWrite(k)]_vars


----------------------------------------------------------------------------
(* Edits of glyphs and of their code points *)

\* edits that mutate glyph "A" and edits that mutate the code points of "A"
CopyChanges ==
    {c \in Changes : c[1].f = "mut" /\ c[1].g = "A" /\ c[1].v.comps = {}}
    \cup {c \in MapChanges : c[1].g = "A"}

NextCopy ==
    \/ \E i \in Editors, c \in CopyChanges : EditFinal(i, c, "c1", FALSE)
    \/ \E i \in Editors : TaskGlyphFetch(i)
    \/ \E i \in Editors : TaskGlyphStore(i)
    \/ \E i \in Editors : TaskMapFetch(i)
    \/ \E i \in Editors : TaskMapStore(i)
    \/ \E i \in Editors : TaskRootFetch(i)
    \/ \E i \in Editors : TaskRootStore(i)
    \/ SchedWake
    \/ SchedWriteOk
    \/ SchedYield

SpecCopy == InitQueue /\ [][NextCopy]_vars

\* C14 (as claimed): when a thunk's write is made, the glyph, the code points
\* or the root value it passes to the backend are what they were when the
\* entry was enqueued, whatever later edits did to the cached values.
C14_WritePayloadAsEnqueued ==
    [][(sched.pc = "writing" /\ sched'.pc = "yield") =>
         /\ sched.cur.func.op = "putGlyph" =>
               /\ backend'[sched.cur.key] = sched.cur.func.val
               /\ CodePointsPassed(heap, sched.cur.func) = sched.cur.func.cps
               /\ backend'[MapKey].cp[sched.cur.func.g] = sched.cur.func.cps
         /\ sched.cur.func.op = "putData" =>
               backend'[sched.cur.key] = sched.cur.func.val]_vars


\* the pattern c has stored for a tier after subscribeChanges(path) followed by
\* unsubscribeChanges(path) on that tier
AfterSubscribeUnsubscribe(c, wantLiveChanges, path) ==
    AdjustedPattern(FALSE,
                    AdjustedPattern(TRUE, StoredPattern(c, wantLiveChanges),
                                    _ensurePattern(path)),
                    _ensurePattern(path))

-----------------------------------------------------------------------------
(* Connection lifecycle *)

\* allConnectionsClosedCallback configured or not
InitConnections ==
    /\ InitDisconnected
    /\ allConnectionsClosedCallback \in BOOLEAN

\* Client sessions that come and go, their bodies returning or raising
NextConnections ==
    \/ \E c \in Conns : UseConnectionEnter(c)
    \/ \E c \in Conns, how \in ExitKinds : UseConnectionExit(c, how)
    \/ \E c \in Conns : ClosedCallbackReturns(c)
    \/ \E c \in Conns, wl \in BOOLEAN : \E p \in SubscribePaths(wl) :
          subscribeChanges(p, wl, c)
    \/ \E c \in Conns, wl \in BOOLEAN : \E p \in SubscribePaths(wl) :
          unsubscribeChanges(p, wl, c)

SpecConnections == InitConnections /\ [][NextConnections]_vars

\* the connections inside the body of a useConnection context
InScope(sc) == {c \in Conns : sc[c] = "in"}

\* the connections whose exit has called allConnectionsClosedCallback, the call
\* not having returned yet
InClosedCallback(sc) == {c \in Conns : sc[c] \in {"closing", "closingRaise"}}

\* C16: whatever the interleaving of useConnection contexts and however their
\* bodies end, the connection set is the set of connections inside a context;
\* the terminal callback, when configured, is called once by the step that
\* empties the set, by no other step, and never while a connection is inside a
\* context; without a callback nothing is called.
C16_ScopedConnections ==
    [][LET called == InClosedCallback(scopes') \ InClosedCallback(scopes)
           emptied == connections # {} /\ connections' = {}
       IN  /\ connections = InScope(scopes)
           /\ connections' = InScope(scopes')
           /\ (emptied /\ allConnectionsClosedCallback) => Cardinality(called) = 1
           /\ called # {} => /\ emptied
                             /\ allConnectionsClosedCallback
                             /\ InScope(scopes') = {}
                             /\ Cardinality(called) = 1
           /\ (\E c \in Conns : scopes[c] = "in" /\ scopes'[c] # "in")
                 => connections' = connections \ {c \in Conns : scopes'[c] # "in"}]_vars

\* the last connection has left and its exit is in the terminal callback, after
\* another connection left by an exception without the callback being called
C16_Witness ==
    /\ allConnectionsClosedCallback
    /\ connections = {}
    /\ \E c, d \in Conns : scopes[c] = "closing" /\ scopes[d] = "raised"


-----------------------------------------------------------------------------
(* close() while writes are pending *)

\* Two editFinal calls, the scheduler with thunks that succeed, and close()
NextClose ==
    \/ \E i \in Editors, c \in QueueChanges : EditFinal(i, c, "c1", FALSE)
    \/ \E i \in Editors : TaskMapFetch(i)
    \/ \E i \in Editors : TaskMapStore(i)
    \/ \E i \in Editors : TaskWrGatherDone(i)
    \/ \E i \in Editors : TaskWrMsgDone(i)
    \/ SchedWake
    \/ SchedWriteOk
    \/ SchedYield
    \/ CloseCall
    \/ CloseResume
    \/ SchedCancelled
    \/ _processWritesTaskDone
    \/ \E P \in ReloadPatterns : WatchEvent(NoChange, TRUE, P, FALSE)
    \/ WatchReloadDone

SpecClose == InitWrite /\ [][NextClose]_vars

\* close() cancels the scheduler in this step
CancelsScheduler ==
    /\ sched.pc \notin {"cancelWait", "cancelRun"}
    /\ sched'.pc \in {"cancelWait", "cancelRun"}

\* C17 (as claimed): close() cancels the scheduler only when the write queue
\* is empty and no thunk is in flight, so that no write is pending when close()
\* returns; the watcher is cancelled when close() is called, before any wait.
C17_CloseDrainsQueue ==
    [][/\ CancelsScheduler => (queue.items = <<>> /\ sched.pc # "writing")
       /\ (closer.pc # "returned" /\ closer'.pc = "returned")
             => (queue'.items = <<>> /\ sched.pc # "writing")
       /\ (closer.pc = "idle" /\ closer'.pc # "idle")
             => (closer'.watcherCancelled /\ tasks'[0] = IdleTask)
       /\ closer.watcherCancelled => tasks'[0] = tasks[0]]_vars


-----------------------------------------------------------------------------
(* A live edit followed by the final edit *)

\* Both connections attached, each with the subscriptions it made
InitLive ==
    /\ backend = InitBackend
    /\ localData = [k \in DataKeys |-> Absent]
    /\ heap = [i \in ObjIds |-> FreeValue]
    /\ glyphMadeOf = <<>>
    /\ glyphUsedBy = <<>>
    /\ queue = [isNone |-> FALSE, items |-> <<>>]
    /\ processWritesEvent = FALSE
    /\ writingInProgressEvent = TRUE
    /\ processWritesError = FALSE
    /\ sched = IdleSched
    /\ readers = [r \in 1..NumReaders |-> IdleReader]
    /\ finishers = [f \in 1..NumFinish |-> "idle"]
    /\ closer = IdleCloser
    /\ connections = Conns
    /\ scopes = [c \in Conns |-> "in"]
    /\ allConnectionsClosedCallback = FALSE
    /\ clientData \in [Conns -> {[live |-> l, committed |-> m] :
                                   l \in {{}} \cup {{p} : p \in SubscribePaths(TRUE)},
                                   m \in {{}} \cup {{p} : p \in SubscribePaths(FALSE)}}]
    /\ sent = {}
    /\ messages = {}
    /\ pend = [k \in DataKeys |-> [n |-> 0, last |-> NoFunc]]
    /\ last = NoLast
    /\ budget = [fails |-> MaxFails, ext |-> MaxExt]
    /\ tasks = [i \in 0..NumEditors |-> IdleTask]
    /\ readOnly = FALSE
    /\ dummyEditor = FALSE

\* A client that sends live changes and then the final change
NextLive ==
    \/ \E c \in Conns, x \in LiveChanges : editIncremental(x, c)
    \/ \E i \in Editors, c \in Conns, x \in LiveChanges : EditFinal(i, x, c, TRUE)
    \/ \E i \in Editors : TaskGlyphFetch(i)
    \/ \E i \in Editors : TaskGlyphStore(i)
    \/ \E i \in Editors : TaskMapFetch(i)
    \/ \E i \in Editors : TaskMapStore(i)
    \/ SchedWake
    \/ SchedWriteOk
    \/ SchedYield

SpecLive == InitLive /\ [][NextLive]_vars

\* the broadcastChange of an editFinal is called in this step, the call before
\* it having been the editIncremental of the same connection
FinalAfterLive ==
    /\ last.op = "editIncremental"
    /\ last'.op = "editFinal" /\ last'.bc
    /\ last'.conn = last.conn

\* C18: when editIncremental(liveChange) is followed by
\* editFinal(finalChange, broadcast = true) of the same connection, every other
\* connection whose live pattern matches the changes has had
\* externalChange(liveChange, true) dispatched by the time
\* externalChange(finalChange, false) is dispatched to it, and a connection
\* whose only matching pattern is the committed one is dispatched the final
\* change alone.
C18_LiveBeforeFinal ==
    [][FinalAfterLive =>
         \A c \in connections \ {last.conn} :
            LET liveCall == [conn |-> c, change |-> last.change, live |-> TRUE]
                finalCall == [conn |-> c, change |-> last'.change, live |-> FALSE]
                matchesLive == /\ MatchChangePattern(last.change, clientData[c].live)
                               /\ MatchChangePattern(last'.change, clientData[c].live)
                matchesCommittedOnly ==
                    /\ ~MatchChangePattern(last.change, clientData[c].live)
                    /\ ~MatchChangePattern(last'.change, clientData[c].live)
                    /\ MatchChangePattern(last'.change, clientData[c].committed)
            IN  /\ matchesLive => /\ liveCall \in sent
                                  /\ finalCall \in sent' \ sent
                                  /\ liveCall \notin sent'
                /\ matchesCommittedOnly =>
                      /\ finalCall \in sent' \ sent
                      /\ \A d \in sent \cup sent' : d.conn = c => ~d.live]_vars

\* the live change of a connection has been dispatched to a connection whose
\* live pattern matches it, nothing has been dispatched to a connection whose
\* committed pattern alone matches it, and the editFinal of the same connection
\* is under way
C18_Witness ==
    /\ last.op = "editIncremental"
    /\ \E i \in Editors :
          /\ tasks[i].pc \notin {"idle", "done", "raised"}
          /\ tasks[i].bc
          /\ tasks[i].conn = last.conn
          /\ MatchChangePattern(tasks[i].orig, {GlyphKey("A")})
    /\ \E c \in connections \ {last.conn} :
          /\ MatchChangePattern(last.change, clientData[c].live)
          /\ [conn |-> c, change |-> last.change, live |-> TRUE] \in sent


\* C19: editIncremental leaves the cache, the dependency tracker, the write
\* queue and both scheduler signals as they are and calls no backend method:
\* all it does is dispatch externalChange(liveChange, true) to connections
\* whose live pattern matches.
C19_LiveEditOnlyDispatches ==
    [][(BroadcastCalled /\ BroadcastLive) =>
         /\ UNCHANGED <<localData, heap, glyphMadeOf, glyphUsedBy, queue,
                        processWritesEvent, writingInProgressEvent>>
         /\ UNCHANGED <<backend, tasks, readers, sched, processWritesError, messages,
                        connections, clientData>>
         /\ \A d \in sent' :
               /\ d.live /\ d.change = last'.change
               /\ d.conn # last'.conn
               /\ MatchChangePattern(d.change, clientData[d.conn].live)]_vars

\* a live change has been dispatched while a glyph is cached, a write is
\* pending and the scheduler has been signalled
C19_Witness ==
    /\ last.op = "editIncremental"
    /\ sent # {}
    /\ queue.items # <<>>
    /\ processWritesEvent /\ ~writingInProgressEvent
    /\ \E g \in Glyphs : localData[GlyphKey(g)] # Absent
    /\ glyphMadeOf # <<>>


-----------------------------------------------------------------------------
(* scheduleDataWrite after the scheduler has ended *)

\* C20 (as claimed): once the processWrites task has ended, a scheduleDataWrite
\* adds nothing to the write queue and signals nothing, the scheduler stays
\* ended, and the call, whatever its connection, goes on from its reloadData,
\* the key dropped from the cache, by telling that connection that the data
\* could not be saved.
C20_RefusedAfterSchedulerEnded ==
    [][sched.pc = "done" =>
         /\ sched'.pc = "done"
         /\ Len(queue'.items) <= Len(queue.items)
         /\ \A k \in DataKeys : pend'[k].n <= pend[k].n
         /\ processWritesEvent' => processWritesEvent
         /\ \A i \in Editors :
               (tasks[i].pc = "wrGather" /\ tasks'[i] # tasks[i]) =>
                  /\ tasks'[i].pc = "wrMsg"
                  /\ [conn |-> tasks[i].conn, title |-> "not saved"] \in messages'
                  /\ \A k \in KeysOf(tasks[i].change) : localData'[k] = Absent]_vars


-----------------------------------------------------------------------------
(* The backend handle and the writes that are left *)

\* the scheduler calls the thunk of an entry in this step
ThunkInvoked == sched.pc # "writing" /\ sched'.pc = "writing"

\* C21 (as claimed): no thunk is called, and the backend is not written, once
\* close() has called backend.close(): the writes pending when close() is
\* called reach the backend before the handle is closed.
C21_NoWriteAfterBackendClosed ==
    [][/\ ThunkInvoked => ~closer.backendClosed
       /\ backend' # backend => ~closer.backendClosed]_vars


\* the processWrites task has not ended
SchedulerAlive == sched.pc # "done"

\* the scheduler is inside _processWritesOneCycle
InCycle == sched.pc \in {"writing", "yield", "failReload", "failMsg"}

\* C22: no lost wake-up. While the scheduler task is alive and an entry is
\* pending, the writing-finished event is clear and the work-available event is
\* set or the scheduler is inside a cycle; the scheduler does not wait for an
\* event that is clear while an entry is pending.
C22_NoLostWakeUp ==
    (SchedulerAlive /\ ~queue.isNone /\ queue.items # <<>>) =>
        /\ ~writingInProgressEvent
        /\ processWritesEvent \/ InCycle
        /\ sched.pc = "wait" => processWritesEvent

\* an entry was enqueued while the scheduler was inside a cycle, after a failed
\* write that the scheduler survived
C22_Witness ==
    /\ sched.pc = "yield"
    /\ queue.items # <<>>
    /\ \E m \in messages : m.title = "reverted"
    /\ ~writingInProgressEvent


\* the keys with an entry in the write queue
PendingKeys(q) == {q.items[j].key : j \in DOMAIN q.items}

\* C23 (as claimed): no accepted write is lost silently. An entry leaves the
\* write queue only by its thunk being called, unless its key is dropped from
\* the cache and its connection is told that the data could not be saved; an
\* entry that a later enqueue replaces keeps the place of its key in the queue.
\* This is so also when the scheduler ends while entries are pending.
C23_NoSilentLoss ==
    [][\A j \in DOMAIN queue.items :
          LET e == queue.items[j]
          IN  e.key \notin PendingKeys(queue') =>
                 \/ sched'.pc = "writing" /\ sched'.cur = e
                 \/ /\ e.conn # NoConn
                    /\ localData'[e.key] = Absent
                    /\ [conn |-> e.conn, title |-> "not saved"] \in messages']_vars

====
